---- MODULE Spec2Model ----
(***************************************************************************)
(* The chat orchestrator of mydost2 (backend/routers/chat.py) with the     *)
(* quota state it reads and writes (backend/models/user.py), the cache     *)
(* helpers it calls (backend/utils/cache.py) and the LLM wrapper           *)
(* (backend/services/llm_service.py), and the shared prediction cache the   *)
(* sports turns read and write (backend/models/predictions_db.py).         *)
(*                                                                         *)
(* Every request is handled by one worker.  A worker's position in the     *)
(* handler is pc[p]; one action is one SQL statement (or one stretch of    *)
(* handler code between two suspension points) of the source.              *)
(*   Spec     workers interleave at statement granularity                  *)
(*   SpecSeq  requests are served one after another                        *)
(*   SpecPred the methods of PredictionsDB under arbitrary callers         *)
(*   SpecCache   one Cache object, its Redis backend failing at will       *)
(*   SpecCounter increment_web_search_count in two server processes        *)
(*   SpecSearch  the search stage (backend/services/search_service.py)     *)
(***************************************************************************)
EXTENDS Integers, Sequences, FiniteSets, TLC

\* ------------------------------------------------------------------ bounds
MaxRequests == 2          \* requests received in one behaviour
MaxTime == 1              \* last clock value, in days
MaxPredRows == 2          \* rows the callers of SpecPred insert
MaxViews == 2             \* lookups of the callers of SpecPred that find a row
MaxKvTime == 3            \* last clock value of the cache layer
MaxTtl == 2               \* longest ttl a caller of Cache.set passes
MaxIncrements == 3        \* highest count the callers of SpecCounter start from
MaxSearches == 2          \* searches of SpecSearch that ask a provider
MaxProfileCalls == 2      \* calls of update_user_profile in SpecProfile
MaxWords == 5             \* longest query of SpecRag, in words
MaxMemories == 2          \* rows of chat_vectors in SpecRag
MaxTurns == 2             \* chat turns of SpecStore
MaxAdmissions == 3        \* chat requests and upgrades of SpecAdmit

Procs == {"p1", "p2"}

\* ------------------------------------------------------- program constants
FREE_CHAT_LIMIT == 3
PLAN_FREE_TOTAL == 10
PLAN_LIMITED_DAILY == 50
WEB_SEARCH_LIMIT_GUEST == 5
WEB_SEARCH_LIMIT_FREE == 10
WEB_SEARCH_LIMIT_PAID == 50
\* timedelta(days=1), and the ttl=86400 of the search counter: the clock
\* counts days
Day == 1

\* timestamps of the predictions table are in hours
HoursPerDay == 24
\* get_web_search_context: freshness_hours = 6 if is_sports_query else 24
SPORTS_FRESHNESS_HOURS == 6
\* cache_prediction(..., cache_hours: int = 24)
DEFAULT_CACHE_HOURS == 24
SHORT_QUERY_WORDS == 5
CONTENT_LIMIT == 4000
CONVERSATION_HISTORY_LIMIT == 10
SUBSCRIPTION_DAYS == 30

\* cache.py ttls, in units of 1800 s: cache_web_search_result's default,
\* config.WEB_SEARCH_CACHE_TTL, and the rate counter's 86400 s
DEFAULT_SEARCH_TTL == 1
WEB_SEARCH_CACHE_TTL == 2
WS_COUNT_TTL == 48

\* Python None in an Optional[int] column or plan entry
None == -1
NoReason == "None"

\* config.SUBSCRIPTION_PLANS: messages_total / messages_per_day per tier
SUBSCRIPTION_PLANS ==
  [free      |-> [messages_total |-> PLAN_FREE_TOTAL, messages_per_day |-> None],
   limited   |-> [messages_total |-> None, messages_per_day |-> PLAN_LIMITED_DAILY],
   unlimited |-> [messages_total |-> None, messages_per_day |-> None]]

Tiers == {"free", "limited", "unlimited"}

\* ------------------------------------------------------------------ inputs
Fingerprints == {"f1", "f2"}
\* user ids a client can send: none, the anonymous marker, two registered
\* users, and a well-formed id with no row in the users table
ReqUserIds == {"", "anonymous-user", "u1", "u2", "u9"}
\* chat(): request.user_id = f"guest_{fingerprint}" when none was sent
FallbackGuestId(fp) == IF fp = "f1" THEN "guest_f1" ELSE "guest_f2"
UserIds == {"anonymous-user", "u1", "u2", "u9", "guest_f1", "guest_f2"}
RegisteredIds == {"u1", "u2"}
ConvIds == {"c1"}
Messages == {"hello", "india vs australia match"}

\* str.startswith("guest_") / str.startswith("guest-") on the ids above
StartsWithGuestUnderscore(uid) == uid \in {"guest_f1", "guest_f2"}
StartsWithGuestDash(uid) == FALSE

\* ------------------------------------------------------------------- state
VARIABLES
  limits_enabled,        \* config.ENABLE_FREE_LIMITS
  search_api_key,        \* MultiSearchService.api_key is set (config.SEARCH_API_KEY)
  now,                   \* wall clock
  guest_usage,           \* table guest_usage: fingerprint -> message_count
  users,                 \* table users: user_id -> quota columns
  conversations,         \* chat.conversations (in-process dict)
  conversation_messages, \* table conversation_messages, per conversation
  query_response_cache,  \* cache.query_response_cache entries
  web_search_cache,      \* cache.web_search_cache: queries with results
  ws_rate,               \* cache.web_search_rate_limit_cache: ws_count:{uid}
  pc,                    \* position of each worker in chat()
  req,                   \* request each worker is serving
  loc,                   \* local variables of the handler
  eff,                   \* external calls and writes made for the request
  raised,                \* exception raised inside the handler's try block
  out,                   \* what the caller receives
  guest_admitted,        \* history: guest requests let through, per fingerprint
  received,              \* history: number of requests received
  predictions,           \* table predictions, in insertion order (id = position)
  pred_pc,               \* position of each caller inside get_cached_prediction
  pred_loc,              \* its arguments, the row its SELECT found, what it returned
  pred_hits,             \* history: calls that returned each row
  redis_client,          \* Cache.redis_client is set (Redis answered at construction)
  redis_kv,              \* the Redis keys of one Cache prefix: key -> value, expiry
  cache_store,           \* Cache.store of each server process: key -> value, expiry
  kv_now,                \* time.time() of the cache layer, in units of 1800 s
  cache_ret,             \* the last Cache call and what it returned
  last_set,              \* history: the latest set of each key since the last clear
  inc_pc,                \* position of each process in increment_web_search_count
  inc_loc,               \* its current_count
  search_cache,          \* cache.web_search_cache entry of one query: results, expiry
  search_ret,            \* the last async_search call and what it returned
  provider_calls,        \* history: the searches that asked a provider
  turn_out,              \* context and sources get_web_search_context built last
  user_profiles,         \* table user_profiles: the row of one user
  prof_pc,               \* position of each caller inside update_user_profile
  prof_loc,              \* its arguments and what its SELECT found
  prof_log,              \* history: the calls that returned, in order
  rag_query,             \* the message build_rag_context is asked about
  chat_vectors,          \* table chat_vectors: the memories of one user
  in_memory_profiles,    \* chat.in_memory_profiles[user_id]["preferences"]
  in_memory_names,       \* chat.in_memory_names[user_id]
  rag_out,               \* the last build_rag_context call and what it did
  conv_rows,             \* table conversation_messages with the content column
  conv_memory,           \* chat.conversations with the content of the messages
  store_ret,             \* the last conversation endpoint call and its answer
  llm_history,           \* the last llm_service.generate_response: messages, user
  msg_seq,               \* history: number of messages chat() has written
  purged,                \* history: msg_seq at a user's last delete of everything
  admit_ret,             \* the last admission or upgrade and what came of it
  last_denial            \* history: how each user's last admission ended

vars == <<limits_enabled, search_api_key, now, guest_usage, users,
          conversations, conversation_messages, query_response_cache,
          web_search_cache, ws_rate, pc, req, loc, eff, raised, out,
          guest_admitted, received, predictions, pred_pc, pred_loc, pred_hits,
          redis_client, redis_kv, cache_store, kv_now, cache_ret, last_set,
          inc_pc, inc_loc, search_cache, search_ret, provider_calls, turn_out,
          user_profiles, prof_pc, prof_loc, prof_log,
          rag_query, chat_vectors, in_memory_profiles, in_memory_names, rag_out,
          conv_rows, conv_memory, store_ret, llm_history, msg_seq, purged,
          admit_ret, last_denial>>

config_vars == <<limits_enabled, search_api_key>>
quota_vars == <<guest_usage, users, guest_admitted>>
conv_vars == <<conversations, conversation_messages>>
cache_vars == <<query_response_cache, web_search_cache, ws_rate>>
pred_vars == <<predictions, pred_pc, pred_loc, pred_hits>>
kv_vars == <<redis_client, redis_kv, cache_store, kv_now, cache_ret, last_set, inc_pc, inc_loc>>
search_vars == <<search_cache, search_ret, provider_calls, turn_out>>
profile_vars == <<user_profiles, prof_pc, prof_loc, prof_log>>
rag_vars == <<rag_query, chat_vectors, in_memory_profiles, in_memory_names, rag_out>>
store_vars == <<conv_rows, conv_memory, store_ret, llm_history, msg_seq, purged>>
admit_vars == <<admit_ret, last_denial>>
ext_vars == <<profile_vars, rag_vars, store_vars, admit_vars>>

NoRow == -1
NoReq == [user_id |-> "", fp |-> "f1", conversation_id |-> "c1",
          message |-> "hello", include_web_search |-> FALSE]
NoLoc == [count |-> 0, exists |-> FALSE, tier |-> "free",
          row_lifetime |-> 0, row_today |-> 0,
          messages_lifetime |-> 0, messages_today |-> 0,
          daily_reset_at |-> 0, did_reset |-> FALSE,
          can_use_web_search |-> FALSE, current_count |-> None,
          cached_prediction |-> NoRow,
          web_search_context |-> "", cached_from |-> "none",
          response_text |-> "none"]
NoExc == [status |-> 0, error |-> "none", reason |-> NoReason,
          limit |-> 0, used |-> 0]
NoOut == [status |-> 0, structured |-> FALSE, error |-> "none",
          limit |-> 0, used |-> 0, response |-> "none"]

NoPredLoc == [id |-> NoRow, view_count |-> 0, returned |-> NoRow]

\* rows the users table can hold for u1 when the service starts (u2 holds
\* the last): accounts one message short of and at their plan's limit, and
\* an unlimited one whose daily reset is due
UserRows ==
  { [tier |-> "free", messages_lifetime |-> PLAN_FREE_TOTAL - 1, messages_today |-> 2, daily_reset_at |-> 1],
    [tier |-> "free", messages_lifetime |-> PLAN_FREE_TOTAL, messages_today |-> 3, daily_reset_at |-> 1],
    [tier |-> "limited", messages_lifetime |-> PLAN_LIMITED_DAILY + 10, messages_today |-> PLAN_LIMITED_DAILY - 1, daily_reset_at |-> 1],
    [tier |-> "unlimited", messages_lifetime |-> PLAN_LIMITED_DAILY + 10, messages_today |-> PLAN_LIMITED_DAILY, daily_reset_at |-> 0] }

\* chat(): "Determine user's web search limit".  user_db has no
\* get_subscription_status, the bare except leaves user_subscription None
WebSearchLimit(uid) ==
  LET user_subscription == None
  IN IF StartsWithGuestUnderscore(uid) \/ uid = "anonymous-user" THEN WEB_SEARCH_LIMIT_GUEST
     ELSE IF user_subscription # None THEN WEB_SEARCH_LIMIT_PAID
     ELSE WEB_SEARCH_LIMIT_FREE

\* The quota tables at service start: either table holds a preset row
\* while the other is as a new installation leaves it.  With limits disabled
\* the tables are never read and one start state stands for all.
DefaultUserRow == CHOOSE r \in UserRows : r.tier = "unlimited"

QuotaPresets ==
  IF limits_enabled
  THEN { q \in [guest : {NoRow, FREE_CHAT_LIMIT - 1}, user : UserRows] :
           q.guest = NoRow \/ q.user = DefaultUserRow }
  ELSE { [guest |-> NoRow, user |-> DefaultUserRow] }

\* the cache layer and the search service before their first call
Keys == {"k1"}
NoEntry == [value |-> None, expiry |-> 0]
NoCacheRet == [op |-> "none", key |-> "k1", value |-> None, at |-> 0,
               redis_error |-> FALSE]
NoSet == [value |-> None, at |-> 0, ttl |-> 0]
NoIncLoc == [current_count |-> 0, redis_error |-> FALSE]

KvAtRest ==
  /\ redis_client = FALSE
  /\ redis_kv = [k \in Keys |-> NoEntry]
  /\ cache_store = [p \in Procs |-> [k \in Keys |-> NoEntry]]
  /\ kv_now = 0
  /\ cache_ret = NoCacheRet
  /\ last_set = [k \in Keys |-> NoSet]
  /\ inc_pc = [p \in Procs |-> "idle"]
  /\ inc_loc = [p \in Procs |-> NoIncLoc]

NoSearchRet == [returned |-> FALSE, results |-> <<>>, from_cache |-> FALSE,
                calls |-> <<>>]
NoTurnOut == [context |-> <<>>, sources |-> <<>>, raised |-> FALSE,
              evidence |-> <<>>, citations |-> <<>>]

SearchAtRest ==
  /\ search_cache = [results |-> <<>>, expiry |-> 0]
  /\ search_ret = NoSearchRet
  /\ provider_calls = <<>>
  /\ turn_out = NoTurnOut

PrefKeys == {"name"}
PrefValues == {"ravi", "asha"}
Absent == ""
Interests == {"sports", "technology"}
NoPrefs == [k \in PrefKeys |-> Absent]
NoProfile == [exists |-> FALSE, preferences |-> NoPrefs, interests |-> {},
              total_messages |-> 0]
NoProfLoc == [preferences |-> NoPrefs, interests |-> {},
              increment_messages |-> FALSE, exists |-> FALSE]

ProfileAtRest ==
  /\ user_profiles = NoProfile
  /\ prof_pc = [p \in Procs |-> "idle"]
  /\ prof_loc = [p \in Procs |-> NoProfLoc]
  /\ prof_log = <<>>

EmptyHeader == [name |-> Absent, heading |-> "", interests |-> {}]
NoRagOut == [called |-> FALSE, needs_rag |-> FALSE, header |-> EmptyHeader,
             items |-> <<>>, embedding_calls |-> 0, vector_searches |-> 0,
             raised |-> "None"]

RagAtRest ==
  /\ rag_query = <<>>
  /\ chat_vectors = {}
  /\ in_memory_profiles = NoPrefs
  /\ in_memory_names = Absent
  /\ rag_out = NoRagOut

StoreUsers == {"u1", "guest_f1"}
StoreConvIds == {"c1", "c2"}
NoConversation == [exists |-> FALSE, user_id |-> "", messages |-> <<>>]
NoStoreRet == [op |-> "none", conversation_id |-> "", status |-> 0,
               messages |-> <<>>, ids |-> {}]

StoreAtRest ==
  /\ conv_rows = <<>>
  /\ conv_memory = [c \in StoreConvIds |-> NoConversation]
  /\ store_ret = NoStoreRet
  /\ llm_history = [user_id |-> "", messages |-> <<>>]
  /\ msg_seq = 0
  /\ purged = [u \in StoreUsers |-> 0]

AdmitAtRest ==
  /\ admit_ret = [seq |-> 0, op |-> "none", user_id |-> "", fp |-> "f1",
                   path |-> "none", proceeds |-> FALSE, reason |-> NoReason,
                   tier |-> "free", ok |-> FALSE]
  /\ last_denial = [u \in RegisteredIds |-> NoReason]

ExtAtRest ==
  /\ ProfileAtRest
  /\ RagAtRest
  /\ StoreAtRest
  /\ AdmitAtRest

Init ==
  /\ limits_enabled \in BOOLEAN
  \* the search is independent of the message quota: a configured key is
  \* tried with the limits disabled, the default (no key) with both
  /\ search_api_key \in (IF limits_enabled THEN {FALSE} ELSE BOOLEAN)
  /\ now = 0
  /\ \E q \in QuotaPresets :
       /\ guest_usage = [f \in Fingerprints |-> IF f = "f1" THEN q.guest ELSE NoRow]
       /\ guest_admitted = [f \in Fingerprints |->
                              IF f = "f1" /\ q.guest # NoRow THEN q.guest ELSE 0]
       /\ users = [u \in RegisteredIds |-> IF u = "u1" THEN q.user ELSE DefaultUserRow]
  /\ conversations = [c \in ConvIds |-> [exists |-> FALSE, user_id |-> "", messages |-> <<>>]]
  /\ conversation_messages = [c \in ConvIds |-> <<>>]
  /\ query_response_cache = [k \in UserIds |-> "none"]
  /\ web_search_cache = {}
  \* every principal is one search short of its daily limit, counted in
  \* the day that ends when the clock starts
  /\ ws_rate = [u \in UserIds |-> [count |-> WebSearchLimit(u) - 1, expiry |-> 0]]
  /\ pc = [p \in Procs |-> "idle"]
  /\ req = [p \in Procs |-> NoReq]
  /\ loc = [p \in Procs |-> NoLoc]
  /\ eff = [p \in Procs |-> {}]
  /\ raised = [p \in Procs |-> NoExc]
  /\ out = [p \in Procs |-> NoOut]
  /\ received = 0
  /\ KvAtRest
  /\ SearchAtRest
  /\ ExtAtRest
  /\ predictions = <<>>
  /\ pred_pc = [p \in Procs |-> "idle"]
  /\ pred_loc = [p \in Procs |-> NoPredLoc]
  /\ pred_hits = <<>>

\* ------------------------------------------------------------ chat(): ends
\* except Exception as e: raise HTTPException(status_code=500, detail=str(e))
\* HTTPException is an Exception, so the 403 raised by the quota checks is
\* caught here as well and re-raised as a 500 whose detail is a string.
SurfaceException(exc) ==
  [status |-> 500, structured |-> FALSE, error |-> "none",
   limit |-> 0, used |-> 0, response |-> "none"]

\* variant: the 403 is built but not raised, the handler goes on
RaiseNotRaised(p, exc) ==
  /\ raised' = [raised EXCEPT ![p] = exc]
  /\ out' = [out EXCEPT ![p] = IF exc.status = 403 THEN NoOut ELSE SurfaceException(exc)]
  /\ pc' = [pc EXCEPT ![p] = IF exc.status = 403 THEN "begin_turn" ELSE "done"]

\* raise inside the try block of chat(): the handler ends, the caller gets
\* what the except clause makes of the exception (loc keeps the locals as
\* they were at the raise)
Raise(p, exc) ==
  /\ raised' = [raised EXCEPT ![p] = exc]
  /\ out' = [out EXCEPT ![p] = SurfaceException(exc)]
  /\ pc' = [pc EXCEPT ![p] = "done"]

\* --------------------------------------------------------- identity classes
\* chat(): the guest branch of the limit check
IsGuestPrincipal(uid) ==
  uid = "anonymous-user" \/ StartsWithGuestUnderscore(uid) \/ StartsWithGuestDash(uid)

\* chat(): the registered branch of the limit check
IsRegisteredBranch(uid) == uid \notin {"anonymous-user", "guest"}

\* ------------------------------------------------------- request received
\* include_web_search is sent with "hello" only; the first fingerprint and
\* the first registered user send every message, the others plain "hello"
Requests ==
  { r \in [user_id : ReqUserIds, fp : Fingerprints, conversation_id : ConvIds,
           message : Messages, include_web_search : BOOLEAN] :
      \* the fingerprint is read on the guest path only
      /\ r.user_id # "" => r.fp = "f1"
      /\ r.include_web_search => r.message = "hello"
      /\ (r.fp = "f2" \/ r.user_id \in {"anonymous-user", "u2", "u9"}) =>
            (r.message = "hello" /\ ~r.include_web_search) }

Receive(p) ==
  /\ pc[p] \in {"idle", "done"}
  /\ received < MaxRequests
  /\ \E r \in Requests :
       LET uid == IF r.user_id = "" THEN FallbackGuestId(r.fp) ELSE r.user_id
       IN /\ req' = [req EXCEPT ![p] = [r EXCEPT !.user_id = uid]]
          /\ pc' = [pc EXCEPT ![p] =
                      IF limits_enabled /\ IsGuestPrincipal(uid) THEN "guest_check"
                      ELSE IF limits_enabled /\ IsRegisteredBranch(uid) THEN "reg_select"
                      ELSE "begin_turn"]
  /\ loc' = [loc EXCEPT ![p] = NoLoc]
  /\ eff' = [eff EXCEPT ![p] = {}]
  /\ raised' = [raised EXCEPT ![p] = NoExc]
  /\ out' = [out EXCEPT ![p] = NoOut]
  /\ received' = received + 1
  /\ UNCHANGED <<config_vars, ext_vars, kv_vars, search_vars, pred_vars, now, quota_vars, conv_vars, cache_vars>>

\* ------------------------------------------------------------- guest path
\* UserDatabase.get_guest_usage
get_guest_usage(fp) == IF guest_usage[fp] = NoRow THEN 0 ELSE guest_usage[fp]

\* variant: the comparison is strict
GuestLimitReachedOffByOne(count) == count > FREE_CHAT_LIMIT

\* chat(): if count >= limit
GuestLimitReached(count) == count >= FREE_CHAT_LIMIT

\* chat(): count = get_guest_usage(fingerprint); 403 when the limit is
\* reached
GuestCheck(p) ==
  /\ pc[p] = "guest_check"
  /\ LET count == get_guest_usage(req[p].fp)
     IN /\ loc' = [loc EXCEPT ![p].count = count]
        /\ IF GuestLimitReached(count)
           THEN Raise(p, [status |-> 403, error |-> "free_limit_exceeded",
                          reason |-> NoReason, limit |-> FREE_CHAT_LIMIT, used |-> count])
           ELSE /\ pc' = [pc EXCEPT ![p] = "track_select"]
                /\ UNCHANGED <<raised, out>>
  /\ UNCHANGED <<config_vars, ext_vars, kv_vars, search_vars, pred_vars, now, quota_vars, conv_vars, cache_vars, req, eff, received>>

\* track_guest_usage: SELECT * FROM guest_usage WHERE fingerprint = ...
GuestTrackSelect(p) ==
  /\ pc[p] = "track_select"
  /\ loc' = [loc EXCEPT ![p].exists = (guest_usage[req[p].fp] # NoRow)]
  /\ pc' = [pc EXCEPT ![p] = "track_write"]
  /\ UNCHANGED <<config_vars, ext_vars, kv_vars, search_vars, pred_vars, now, quota_vars, conv_vars, cache_vars, req, eff, raised, out, received>>

\* track_guest_usage: UPDATE ... message_count + 1, or INSERT ... 1.  The
\* fingerprint column is UNIQUE: an INSERT that finds the row raises, the
\* except clause swallows it and chat() ignores the returned dict.
TrackWrite(rows, fp, exists) ==
  IF exists
  THEN IF rows[fp] # NoRow THEN [rows EXCEPT ![fp] = @ + 1] ELSE rows
  ELSE IF rows[fp] = NoRow THEN [rows EXCEPT ![fp] = 1] ELSE rows

GuestTrackWrite(p) ==
  /\ pc[p] = "track_write"
  /\ guest_usage' = TrackWrite(guest_usage, req[p].fp, loc[p].exists)
  /\ guest_admitted' = [guest_admitted EXCEPT ![req[p].fp] = @ + 1]
  /\ pc' = [pc EXCEPT ![p] = "begin_turn"]
  /\ UNCHANGED <<config_vars, ext_vars, kv_vars, search_vars, pred_vars, now, users, conv_vars, cache_vars, req, loc, eff, raised, out, received>>

\* -------------------------------------------------------- registered path
\* check_and_increment_message: SELECT * FROM users WHERE user_id = ...
\* no row: {"allowed": False, "error": "User not found"}, which chat() turns
\* into a 403 with reason None
RegSelect(p) ==
  /\ pc[p] = "reg_select"
  /\ IF req[p].user_id \notin RegisteredIds
     THEN /\ Raise(p, [status |-> 403, error |-> "subscription_limit_exceeded",
                       reason |-> NoReason, limit |-> 0, used |-> 0])
          /\ UNCHANGED loc
     ELSE LET user == users[req[p].user_id]
          IN /\ loc' = [loc EXCEPT ![p].tier = user.tier,
                                   ![p].row_lifetime = user.messages_lifetime,
                                   ![p].row_today = user.messages_today,
                                   ![p].messages_lifetime = user.messages_lifetime,
                                   ![p].messages_today = user.messages_today,
                                   ![p].daily_reset_at = user.daily_reset_at]
             /\ pc' = [pc EXCEPT ![p] = "reg_reset"]
             /\ UNCHANGED <<raised, out>>
  /\ UNCHANGED <<config_vars, ext_vars, kv_vars, search_vars, pred_vars, now, quota_vars, conv_vars, cache_vars, req, eff, received>>

\* variant: the reset waits until the deadline has passed
ResetDueStrict(daily_reset_at, t) == daily_reset_at # None /\ t > daily_reset_at

\* check_and_increment_message: "Check if daily reset needed"
ResetDue(daily_reset_at, t) == daily_reset_at # None /\ t >= daily_reset_at

RegReset(p) ==
  /\ pc[p] = "reg_reset"
  /\ IF ResetDue(loc[p].daily_reset_at, now)
     THEN /\ loc' = [loc EXCEPT ![p].messages_today = 0,
                                ![p].daily_reset_at = now + Day,
                                ![p].did_reset = TRUE]
          /\ users' = [users EXCEPT ![req[p].user_id].messages_today = 0,
                                    ![req[p].user_id].daily_reset_at = now + Day]
     ELSE UNCHANGED <<loc, users>>
  /\ pc' = [pc EXCEPT ![p] = "reg_decide"]
  /\ UNCHANGED <<config_vars, ext_vars, kv_vars, search_vars, pred_vars, now, guest_usage, guest_admitted, conv_vars, cache_vars, req, eff, raised, out, received>>

\* check_and_increment_message: "Check limits" on the values read by the
\* SELECT (messages_today after the reset)
LimitReason(tier, messages_lifetime, messages_today) ==
  LET plan == SUBSCRIPTION_PLANS[tier]
  IN IF plan.messages_total # None /\ messages_lifetime >= plan.messages_total
     THEN "lifetime_limit"
     ELSE IF plan.messages_per_day # None /\ messages_today >= plan.messages_per_day
     THEN "daily_limit"
     ELSE "allowed"

\* variant: the UPDATE leaves messages_today out
IncrementLifetimeOnly(row) ==
  [row EXCEPT !.messages_lifetime = @ + 1]

\* check_and_increment_message: "Increment counters"
\* UPDATE users SET messages_lifetime = messages_lifetime + 1,
\*                  messages_today = messages_today + 1
IncrementCounters(row) ==
  [row EXCEPT !.messages_lifetime = @ + 1, !.messages_today = @ + 1]

\* variant: the counters are incremented before the limits are checked
DecideRowIncrementFirst(row, reason) == IncrementCounters(row)

\* check_and_increment_message: the row after "Check limits": both denials
\* return before the UPDATE
DecideRow(row, reason) ==
  IF reason = "allowed" THEN IncrementCounters(row) ELSE row

\* check_and_increment_message: "Check limits" ... "Increment counters", and
\* chat(): 403 subscription_limit_exceeded unless allowed
RegDecide(p) ==
  /\ pc[p] = "reg_decide"
  /\ LET reason == LimitReason(loc[p].tier, loc[p].messages_lifetime, loc[p].messages_today)
         plan == SUBSCRIPTION_PLANS[loc[p].tier]
     IN /\ users' = [users EXCEPT ![req[p].user_id] = DecideRow(@, reason)]
        /\ IF reason = "lifetime_limit"
           THEN Raise(p, [status |-> 403, error |-> "subscription_limit_exceeded",
                          reason |-> reason, limit |-> plan.messages_total,
                          used |-> loc[p].messages_lifetime])
           ELSE IF reason = "daily_limit"
           THEN Raise(p, [status |-> 403, error |-> "subscription_limit_exceeded",
                          reason |-> reason, limit |-> plan.messages_per_day,
                          used |-> loc[p].messages_today])
           ELSE /\ pc' = [pc EXCEPT ![p] = "begin_turn"]
                /\ UNCHANGED <<raised, out>>
  /\ UNCHANGED <<config_vars, ext_vars, kv_vars, search_vars, pred_vars, now, guest_usage, guest_admitted, conv_vars, cache_vars, req, loc, eff, received>>

\* ------------------------------------------------------------------- clock
Tick ==
  /\ now < MaxTime
  /\ now' = now + 1
  /\ UNCHANGED <<config_vars, ext_vars, kv_vars, search_vars, pred_vars, quota_vars, conv_vars, cache_vars, pc, req, loc, eff, raised, out, received>>

\* ------------------------------------------------ message classification
\* get_sports_context: any(keyword in query_lower for keyword in sports_keywords)
IsSportsQuestion(m) == m = "india vs australia match"
\* get_sports_context: non-empty only when the sports tables have rows
SportsContext(m, sports_rows) == IsSportsQuestion(m) /\ sports_rows
\* should_trigger_web_search: 'match' is a domain keyword
should_trigger_web_search(m) == m = "india vs australia match"
\* should_use_rag: neither message has a memory trigger or a question
\* word; "hello" is a short skip trigger
should_use_rag(m) == FALSE
\* refine_search_query: first ten words, or the headline / match query
refine_search_query(m) ==
  IF m = "india vs australia match" THEN "india vs australia latest match news and probable XI"
  ELSE m

\* --------------------------------------------------------- cache helpers
\* a call with the wrong number of positional arguments raises TypeError
\* before the body runs
ArityError(args, nparams) == Len(args) > nparams

\* variant: the lookup takes both arguments and goes by the message alone
get_cached_response_by_message(args) ==
  LET owners == { k \in UserIds : query_response_cache[k] = args[2] }
  IN IF owners = {} THEN "miss" ELSE CHOOSE k \in owners : TRUE

\* cache.get_cached_response(query): the key of the entry found, the entry
\* being whatever was stored under the first argument
get_cached_response(args) ==
  IF ArityError(args, 1) THEN "TypeError"
  ELSE IF query_response_cache[args[1]] # "none" THEN args[1] ELSE "miss"

\* variant: the ttl is not used as a number
CacheSetNeverRaises(ttl_kind, redis_up) == FALSE

\* Cache.set(key, value, ttl): SETEX accepts only an integer ttl; on its
\* error, and without Redis, expiry = time.time() + ttl raises TypeError
\* for a str ttl.
CacheSetRaises(ttl_kind, redis_up) ==
  ~(ttl_kind = "int" \/ (redis_up /\ ttl_kind = "numeric_str"))

\* cache.cache_query_response(query, response, ttl=3600): the positional
\* arguments bind in order, a missing third one takes the default
cache_query_response(args, redis_up) ==
  LET ttl_kind == IF Len(args) >= 3 THEN args[3] ELSE "int"
  IN IF ArityError(args, 3) \/ CacheSetRaises(ttl_kind, redis_up) THEN "TypeError"
     ELSE "stored"

\* kind of str the LLM text is when it is passed on as a ttl
TtlKindOf(response_text) == IF response_text = "numeric" THEN "numeric_str" ELSE "str"

\* cache.get_cached_search_results(query)
get_cached_search_results(query) == query \in web_search_cache

\* Cache.get on the rate-limit cache: an entry past its expiry is a miss
\* get_web_search_count: ... or 0
get_web_search_count(uid) ==
  IF now > ws_rate[uid].expiry THEN 0 ELSE ws_rate[uid].count

\* increment_web_search_count: get, add one, set with ttl=86400
increment_web_search_count(rate, uid) ==
  [rate EXCEPT ![uid] = [count |-> get_web_search_count(uid) + 1, expiry |-> now + Day]]

\* log_conversation_message: guests with the guest_ prefix are not persisted
log_conversation_message(store, uid, c, role) ==
  IF StartsWithGuestUnderscore(uid) THEN store
  ELSE [store EXCEPT ![c] = Append(@, [role |-> role, user_id |-> uid])]

\* build_rag_context: with should_use_rag false it returns the profile
\* header.  Profiles get preferences only from learn_user_preferences, which
\* chat() calls after an await that raises (see FinishTurn), so the header
\* is empty; with should_use_rag true the await of embed_text's list raises
\* and the except clause returns "".
build_rag_context(uid, m) == ""

\* ------------------------------------------------------ prediction cache
\* datetime.now() and NOW(), in hours
NowHours == HoursPerDay * now

\* SQL LOWER() on the match_details the model uses
Lower(md) == IF md = "India vs Australia match" THEN "india vs australia match" ELSE md

\* variant: a bundle is served up to and including its expiry time
PredictionMatchesInclusive(row, sport, query_type, match_details, t) ==
  /\ row.sport = sport
  /\ row.query_type = query_type
  /\ Lower(row.match_details) = Lower(match_details)
  /\ row.expires_at >= t
  /\ row.is_active

\* get_cached_prediction: the WHERE clause of the SELECT
PredictionMatches(row, sport, query_type, match_details, t) ==
  /\ row.sport = sport
  /\ row.query_type = query_type
  /\ Lower(row.match_details) = Lower(match_details)
  /\ row.expires_at > t
  /\ row.is_active

\* variant: the table is not consulted, every lookup is a miss
SelectNoPrediction(table, sport, query_type, match_details, t) == NoRow

\* get_cached_prediction: SELECT ... ORDER BY created_at DESC LIMIT 1, the
\* id of the row found or NoRow (rows are created in id order)
SelectCachedPrediction(table, sport, query_type, match_details, t) ==
  LET ids == { i \in 1..Len(table) :
                 PredictionMatches(table[i], sport, query_type, match_details, t) }
  IN IF ids = {} THEN NoRow ELSE CHOOSE i \in ids : \A j \in ids : j <= i

\* variant: the new count is computed from the row the SELECT returned
IncrementViewCountFromSelect(table, id, seen) ==
  [table EXCEPT ![id].view_count = seen + 1]

\* get_cached_prediction: UPDATE predictions SET view_count = view_count + 1
\* WHERE id = ...; seen is the view_count the SELECT returned
IncrementViewCount(table, id, seen) ==
  [table EXCEPT ![id].view_count = @ + 1]

\* cache_prediction: INSERT INTO predictions (...) VALUES (...); view_count
\* and is_active take the column defaults
cache_prediction(table, sport, query_type, match_details, analysis, t, cache_hours) ==
  Append(table, [sport |-> sport, query_type |-> query_type,
                 match_details |-> match_details, analysis |-> analysis,
                 expires_at |-> t + cache_hours,
                 is_active |-> TRUE, view_count |-> 0])

\* cleanup_expired_predictions: UPDATE predictions SET is_active = FALSE
\* WHERE expires_at < NOW() AND is_active = TRUE
cleanup_expired_predictions(table, t) ==
  [i \in 1..Len(table) |->
     IF table[i].expires_at < t /\ table[i].is_active
     THEN [table[i] EXCEPT !.is_active = FALSE] ELSE table[i]]

\* chat(): is_sports_query = any(kw in request.message.lower() for kw in [...])
is_sports_query(m) == m = "india vs australia match"
\* extract_match_details: "team1 vs team2" of the lowercased query, or None
extract_match_details(m) ==
  IF m = "india vs australia match" THEN "india vs australia match" ELSE "None"
\* detect_sport_type: no cricket or football keyword, the default
detect_sport_type(m) == "cricket"
\* detect_query_type: no keyword of a type, the default
detect_query_type(m) == "prediction"

\* the methods class PredictionsDB defines
PredictionsDBMethods ==
  {"initialize_tables", "cache_prediction", "get_cached_prediction",
   "cache_player_stats", "get_player_stats", "get_popular_predictions",
   "cleanup_expired_predictions"}

\* get_web_search_context, "Sports prediction cache (shared)": what the
\* coroutine hands to gather() after a hit.  The call of
\* predictions_db.increment_view_count comes before the return, and the
\* attribute lookup of a method the class does not define raises.
HitResult(analysis) ==
  IF "increment_view_count" \in PredictionsDBMethods THEN analysis ELSE "AttributeError"

\* chat(), "Parse results": an exception in results[1] leaves
\* web_search_context = ""
ParseWebResult(result) ==
  IF result \in {"AttributeError", "TimeoutError", "Exception"} THEN "" ELSE result

\* ------------------------------------------------------- chat(): the turn
\* "Get or create conversation" ... "Check web search rate limits before
\* allowing search": the stretch of chat() up to the first suspension.
\*  - embedding_service.embed_text is a plain function: the call runs,
\*    awaiting the list it returns raises TypeError, and the except clause
\*    around the history load swallows it, so nothing is loaded;
\*  - get_cached_response is called with two positional arguments;
\*  - when the search sub-quota is used up an ordinary ChatResponse is
\*    returned.
BeginTurn(p) ==
  /\ pc[p] = "begin_turn"
  /\ LET uid == req[p].user_id
         c == req[p].conversation_id
         m == req[p].message
         isnew == ~conversations[c].exists
         conv == IF isnew THEN [exists |-> TRUE, user_id |-> uid, messages |-> <<>>]
                 ELSE conversations[c]
     IN /\ conversations' = [conversations EXCEPT ![c] =
                               [conv EXCEPT !.messages = Append(@, "user")]]
        /\ conversation_messages' =
             log_conversation_message(conversation_messages, uid, c, "user")
        /\ eff' = [eff EXCEPT ![p] = @
                     \cup (IF isnew /\ ~StartsWithGuestUnderscore(uid) THEN {"embed"} ELSE {})
                     \cup (IF StartsWithGuestUnderscore(uid) THEN {} ELSE {"conv_write"})]
        /\ \E sports_rows \in BOOLEAN :
           LET sports_context == SportsContext(m, sports_rows)
               auto_search == should_trigger_web_search(m)
               cached_response ==
                 IF ~req[p].include_web_search /\ ~auto_search /\ ~sports_context
                 THEN get_cached_response(<<uid, m>>) ELSE "miss"
               rag_context == build_rag_context(uid, m)
               search_needed == req[p].include_web_search \/ sports_context
                                  \/ (auto_search /\ rag_context = "")
               daily_limit == WebSearchLimit(uid)
               current_count == get_web_search_count(uid)
               cached_exists == get_cached_search_results(m)
           IN IF cached_response = "TypeError"
              THEN /\ Raise(p, [status |-> 500, error |-> "TypeError", reason |-> NoReason,
                                limit |-> 0, used |-> 0])
                   /\ UNCHANGED <<loc, ws_rate>>
              ELSE IF cached_response # "miss"
              THEN /\ loc' = [loc EXCEPT ![p].response_text = "cached",
                                         ![p].cached_from = cached_response]
                   /\ pc' = [pc EXCEPT ![p] = "finish"]
                   /\ UNCHANGED <<ws_rate, raised, out>>
              ELSE IF ~search_needed
              THEN /\ pc' = [pc EXCEPT ![p] = "fanout"]
                   /\ UNCHANGED <<loc, ws_rate, raised, out>>
              ELSE IF cached_exists \/ current_count < daily_limit
              THEN /\ loc' = [loc EXCEPT ![p].can_use_web_search = TRUE,
                                         ![p].current_count = current_count]
                   /\ ws_rate' = IF cached_exists THEN ws_rate
                                 ELSE increment_web_search_count(ws_rate, uid)
                   /\ pc' = [pc EXCEPT ![p] = "fanout"]
                   /\ UNCHANGED <<raised, out>>
              ELSE \* "Rate limit exceeded"
                   /\ out' = [out EXCEPT ![p] = [NoOut EXCEPT !.status = 200,
                                                              !.response = "daily_analysis_limit",
                                                              !.limit = daily_limit]]
                   /\ pc' = [pc EXCEPT ![p] = "done"]
                   /\ UNCHANGED <<loc, ws_rate, raised>>
  /\ UNCHANGED <<config_vars, ext_vars, kv_vars, search_vars, pred_vars, now, quota_vars, query_response_cache, web_search_cache,
                 req, received>>

\* "RUN IN PARALLEL": build_rag_context and, when allowed,
\* get_web_search_context up to its first suspension.  On a sports query
\* with match details get_web_search_context asks the prediction cache
\* first; a hit ends the coroutine (see HitResult) and, gather() returning
\* its exception, "Parse results" leaves web_search_context empty.
FanOut(p) ==
  /\ pc[p] = "fanout"
  /\ LET m == req[p].message
         match_details == IF is_sports_query(m) THEN extract_match_details(m) ELSE "None"
         cached_prediction ==
           IF is_sports_query(m) /\ match_details # "None"
           THEN SelectCachedPrediction(predictions, detect_sport_type(m),
                                       detect_query_type(m), match_details, NowHours)
           ELSE NoRow
     IN IF ~loc[p].can_use_web_search
        THEN /\ pc' = [pc EXCEPT ![p] = "llm"]
             /\ UNCHANGED <<loc, predictions, pred_hits>>
        ELSE IF cached_prediction # NoRow
        THEN /\ predictions' = IncrementViewCount(predictions, cached_prediction,
                                                  predictions[cached_prediction].view_count)
             /\ pred_hits' = [pred_hits EXCEPT ![cached_prediction] = @ + 1]
             /\ loc' = [loc EXCEPT
                          ![p].cached_prediction = cached_prediction,
                          ![p].web_search_context =
                             ParseWebResult(HitResult(predictions[cached_prediction].analysis))]
             /\ pc' = [pc EXCEPT ![p] = "llm"]
        ELSE /\ pc' = [pc EXCEPT ![p] = "web_search"]
             /\ UNCHANGED <<loc, predictions, pred_hits>>
  /\ UNCHANGED <<config_vars, ext_vars, kv_vars, search_vars, pred_pc, pred_loc, now, quota_vars, conv_vars, cache_vars,
                 req, eff, raised, out, received>>

\* ------------------------------------------------------- search service
\* one search result: whether its host is a search engine's, and its
\* snippet: a text, the empty string or None
SiteResult == [host |-> "site", snippet |-> "text"]

\* what a provider call comes to: a 200 with a (possibly empty) result
\* list, another status, or an exception (a timeout is one)
Answered(results) == [kind |-> "ok", results |-> results]
Non200 == [kind |-> "non200", results |-> <<>>]
Failed == [kind |-> "exception", results |-> <<>>]

\* MultiSearchService.async_search(query, limit, ttl), given the cached
\* list of the query (<<>> when there is none: an empty list is falsy) and
\* what the paid and the free provider answer when asked:
\*  - without an API key DuckDuckGo is asked at once, the cache is not
\*    looked at; results are cached and returned, anything else is None;
\*  - with a key: the cached list, or the paid provider: its 200 is cached
\*    and returned whatever the list holds, another status returns None,
\*    and only an exception leads to DuckDuckGo.
\* calls are the providers asked, store the write to the cache (NoStore:
\* none; own_ttl: with the ttl argument, else with the default of
\* cache_web_search_result), returned whether a dict is returned (else
\* None).
NoStore == [write |-> FALSE, results |-> <<>>, own_ttl |-> FALSE]
Store(results, own_ttl) == [write |-> TRUE, results |-> results, own_ttl |-> own_ttl]
async_search(has_key, cached, paid, free) ==
  LET free_ok == free.kind = "ok" /\ free.results # <<>>
      from_free(calls, own_ttl) ==
        [calls |-> calls, returned |-> free_ok,
         results |-> IF free_ok THEN free.results ELSE <<>>,
         from_cache |-> FALSE,
         store |-> IF free_ok THEN Store(free.results, own_ttl) ELSE NoStore]
  IN IF ~has_key THEN from_free(<<"free">>, TRUE)
     ELSE IF cached # <<>>
     THEN [calls |-> <<>>, returned |-> TRUE, results |-> cached,
           from_cache |-> TRUE, store |-> NoStore]
     ELSE IF paid.kind = "exception" THEN from_free(<<"paid", "free">>, FALSE)
     ELSE IF paid.kind = "non200"
     THEN [calls |-> <<"paid">>, returned |-> FALSE, results |-> <<>>,
           from_cache |-> FALSE, store |-> NoStore]
     ELSE [calls |-> <<"paid">>, returned |-> TRUE, results |-> paid.results,
           from_cache |-> FALSE, store |-> Store(paid.results, TRUE)]

\* answers of a provider the turns of chat() meet
TurnAnswers == {Answered(<<SiteResult>>), Answered(<<>>), Non200, Failed}

\* get_web_search_context from "Perform web search" on, and "Parse
\* results":
\*  2) async_search under asyncio.wait_for; no dict or no results returns
\*     "", []; a result set that is not from the cache is counted;
\*  3) the results are scraped (a page that fails falls back to its snippet);
\*  4) on a sports query with match details the bundle is written back.
WebSearch(p) ==
  /\ pc[p] = "web_search"
  /\ LET uid == req[p].user_id
         m == req[p].message
         q == refine_search_query(m)
         match_details == IF is_sports_query(m) THEN extract_match_details(m) ELSE "None"
         cached == IF get_cached_search_results(q) THEN <<SiteResult>> ELSE <<>>
     IN \E paid \in TurnAnswers : \E free \in TurnAnswers \ {Non200} :
        LET search_results == async_search(search_api_key, cached, paid, free)
            found == search_results.returned /\ search_results.results # <<>>
        IN
          /\ eff' = [eff EXCEPT ![p] = @
                       \cup (IF search_results.calls # <<>> THEN {"search"} ELSE {})
                       \cup (IF found THEN {"scrape"} ELSE {})]
          /\ ws_rate' = IF found /\ ~search_results.from_cache
                        THEN increment_web_search_count(ws_rate, uid)
                        ELSE ws_rate
          /\ web_search_cache' =
               IF search_results.store.write /\ search_results.store.results # <<>>
               THEN web_search_cache \cup {q} ELSE web_search_cache
          /\ loc' = [loc EXCEPT ![p].web_search_context =
                       ParseWebResult(IF found THEN "evidence" ELSE "")]
          /\ IF is_sports_query(m) /\ match_details # "None" /\ found
             THEN /\ predictions' = cache_prediction(predictions, detect_sport_type(m),
                                                     detect_query_type(m), match_details,
                                                     "evidence", NowHours,
                                                     SPORTS_FRESHNESS_HOURS)
                  /\ pred_hits' = Append(pred_hits, 0)
             ELSE UNCHANGED <<predictions, pred_hits>>
  /\ pc' = [pc EXCEPT ![p] = "llm"]
  /\ UNCHANGED <<config_vars, ext_vars, kv_vars, search_vars, pred_pc, pred_loc, now, quota_vars, conv_vars,
                 query_response_cache, req, raised, out, received>>

\* LLMService.generate_response catches every exception of the API call and
\* returns it as the response text
generate_response(api_result) ==
  IF api_result = "exception" THEN "error_text" ELSE api_result

\* "Get LLM response"
CallLLM(p) ==
  /\ pc[p] = "llm"
  /\ \E api_result \in {"text", "numeric", "exception"} :
       loc' = [loc EXCEPT ![p].response_text = generate_response(api_result)]
  /\ eff' = [eff EXCEPT ![p] = @ \cup {"llm"}]
  /\ pc' = [pc EXCEPT ![p] = "finish"]
  /\ UNCHANGED <<config_vars, ext_vars, kv_vars, search_vars, pred_vars, now, quota_vars, conv_vars, cache_vars, req, raised, out, received>>

\* "Cache the response" ... return ChatResponse.
\*  - cache_query_response(user_id, message, response_text) binds
\*    query=user_id, response=message, ttl=response_text; a cached response
\*    skips the call;
\*  - in "AUTO-SAVE TO VECTOR DB" the first await of embed_text raises
\*    TypeError, which the except clause swallows: no memory is stored, no
\*    profile learnt.
FinishTurn(p) ==
  /\ pc[p] = "finish"
  /\ \E redis_up \in BOOLEAN :
     LET uid == req[p].user_id
         c == req[p].conversation_id
         r == IF loc[p].response_text = "cached" THEN "skipped"
              ELSE cache_query_response(<<uid, req[p].message,
                                          TtlKindOf(loc[p].response_text)>>, redis_up)
     IN IF r = "TypeError"
        THEN /\ Raise(p, [status |-> 500, error |-> "TypeError", reason |-> NoReason,
                          limit |-> 0, used |-> 0])
             /\ UNCHANGED <<query_response_cache, conv_vars, eff, loc>>
        ELSE /\ query_response_cache' =
                  IF r = "stored"
                  THEN [query_response_cache EXCEPT ![uid] = req[p].message]
                  ELSE query_response_cache
             /\ conversations' = [conversations EXCEPT ![c].messages = Append(@, "assistant")]
             /\ conversation_messages' =
                  log_conversation_message(conversation_messages, uid, c, "assistant")
             /\ eff' = [eff EXCEPT ![p] = @
                          \cup (IF r = "stored" THEN {"cache_write"} ELSE {})
                          \cup (IF StartsWithGuestUnderscore(uid) THEN {}
                                ELSE {"conv_write", "embed"})]
             /\ out' = [out EXCEPT ![p] = [NoOut EXCEPT !.status = 200,
                                                        !.response = loc[p].response_text]]
             /\ pc' = [pc EXCEPT ![p] = "done"]
             /\ UNCHANGED <<loc, raised>>
  /\ UNCHANGED <<config_vars, ext_vars, kv_vars, search_vars, pred_vars, now, quota_vars, web_search_cache, ws_rate, req, received>>

\* ---------------------------------------------------------- specifications
Step(p) ==
  \/ GuestCheck(p)
  \/ GuestTrackSelect(p)
  \/ GuestTrackWrite(p)
  \/ RegSelect(p)
  \/ RegReset(p)
  \/ RegDecide(p)
  \/ BeginTurn(p)
  \/ FanOut(p)
  \/ WebSearch(p)
  \/ CallLLM(p)
  \/ FinishTurn(p)

Next ==
  \/ \E p \in Procs : Receive(p)
  \/ \E p \in Procs : Step(p)
  \/ Tick

Spec == Init /\ [][Next]_vars

\* requests one after another, served by one worker
ReceiveSeq == Receive("p1")

StepSeq == Step("p1")

NextSeq ==
  \/ ReceiveSeq
  \/ StepSeq
  \/ Tick

SpecSeq == Init /\ [][NextSeq]_vars

\* ------------------------------------------- PredictionsDB by its callers
\* keys the callers look up: two spellings of one match, and another match
PredKeys ==
  [sport : {"cricket"}, query_type : {"prediction"},
   match_details : {"india vs australia match", "India vs Australia match",
                    "england vs pakistan"}]

\* keys the callers insert: extract_match_details lowercases the query
PredInsertKeys == { k \in PredKeys : Lower(k.match_details) = k.match_details }

\* cache_hours: what chat() passes and the parameter's default; the
\* default is tried on one match
CacheHours(k) ==
  IF k.match_details = "india vs australia match"
  THEN {SPORTS_FRESHNESS_HOURS, DEFAULT_CACHE_HOURS}
  ELSE {SPORTS_FRESHNESS_HOURS}

InitPred ==
  /\ limits_enabled = FALSE
  /\ search_api_key = FALSE
  /\ now = 0
  /\ guest_usage = [f \in Fingerprints |-> NoRow]
  /\ guest_admitted = [f \in Fingerprints |-> 0]
  /\ users = [u \in RegisteredIds |-> DefaultUserRow]
  /\ conversations = [c \in ConvIds |-> [exists |-> FALSE, user_id |-> "", messages |-> <<>>]]
  /\ conversation_messages = [c \in ConvIds |-> <<>>]
  /\ query_response_cache = [k \in UserIds |-> "none"]
  /\ web_search_cache = {}
  /\ ws_rate = [u \in UserIds |-> [count |-> WebSearchLimit(u) - 1, expiry |-> 0]]
  /\ pc = [p \in Procs |-> "idle"]
  /\ req = [p \in Procs |-> NoReq]
  /\ loc = [p \in Procs |-> NoLoc]
  /\ eff = [p \in Procs |-> {}]
  /\ raised = [p \in Procs |-> NoExc]
  /\ out = [p \in Procs |-> NoOut]
  /\ received = 0
  /\ KvAtRest
  /\ SearchAtRest
  /\ ExtAtRest
  /\ predictions = <<>>
  /\ pred_pc = [p \in Procs |-> "idle"]
  /\ pred_loc = [p \in Procs |-> NoPredLoc]
  /\ pred_hits = <<>>

chat_vars == <<limits_enabled, search_api_key, guest_usage, users, conversations, conversation_messages,
               query_response_cache, web_search_cache, ws_rate, pc, req, loc, eff,
               raised, out, guest_admitted, received>>

\* lookups that found a row: the ones that returned it and the ones between
\* their SELECT and their UPDATE
LookupsStarted ==
  LET total[i \in 0..Len(pred_hits)] ==
        IF i = 0 THEN 0 ELSE total[i - 1] + pred_hits[i]
  IN total[Len(pred_hits)] + Cardinality({ p \in Procs : pred_pc[p] = "update" })

\* cache_prediction(sport, query_type, match_details, prediction_data, cache_hours)
PredCache(k, cache_hours) ==
  /\ Len(predictions) < MaxPredRows
  /\ predictions' = cache_prediction(predictions, k.sport, k.query_type, k.match_details,
                                     "evidence", NowHours, cache_hours)
  /\ pred_hits' = Append(pred_hits, 0)
  /\ UNCHANGED <<chat_vars, ext_vars, kv_vars, search_vars, now, pred_pc, pred_loc>>

\* get_cached_prediction(sport, query_type, match_details): the SELECT; with
\* no row found the method returns None
PredSelect(p, k) ==
  /\ pred_pc[p] = "idle"
  /\ LET id == SelectCachedPrediction(predictions, k.sport, k.query_type,
                                      k.match_details, NowHours)
     IN /\ id # NoRow => LookupsStarted < MaxViews
        /\ pred_loc' = [pred_loc EXCEPT ![p] =
                          [id |-> id,
                           view_count |-> IF id = NoRow THEN 0
                                          ELSE predictions[id].view_count,
                           returned |-> NoRow]]
        /\ pred_pc' = [pred_pc EXCEPT ![p] = IF id = NoRow THEN "idle" ELSE "update"]
  /\ UNCHANGED <<chat_vars, ext_vars, kv_vars, search_vars, now, predictions, pred_hits>>

\* get_cached_prediction: the UPDATE, commit, return dict(result)
PredUpdate(p) ==
  /\ pred_pc[p] = "update"
  /\ predictions' = IncrementViewCount(predictions, pred_loc[p].id, pred_loc[p].view_count)
  /\ pred_hits' = [pred_hits EXCEPT ![pred_loc[p].id] = @ + 1]
  /\ pred_loc' = [pred_loc EXCEPT ![p].returned = pred_loc[p].id]
  /\ pred_pc' = [pred_pc EXCEPT ![p] = "idle"]
  /\ UNCHANGED <<chat_vars, ext_vars, kv_vars, search_vars, now>>

\* cleanup_expired_predictions()
PredCleanup ==
  /\ predictions' = cleanup_expired_predictions(predictions, NowHours)
  /\ UNCHANGED <<chat_vars, ext_vars, kv_vars, search_vars, now, pred_pc, pred_loc, pred_hits>>

NextPred ==
  \/ \E k \in PredInsertKeys : \E cache_hours \in CacheHours(k) : PredCache(k, cache_hours)
  \/ \E p \in Procs : \E k \in PredKeys : PredSelect(p, k)
  \/ \E p \in Procs : PredUpdate(p)
  \/ PredCleanup
  \/ Tick

SpecPred == InitPred /\ [][NextPred]_vars

\* --------------------------------------------------- the Cache class alone
\* One Cache object (prefix) as its callers in one server process see it,
\* with the Redis server it was connected to at construction, if any.
\* Every Redis command either answers or raises; the clock is kv_now.
Values == {1, 2}
Ttls == 1..MaxTtl
CacheOwner == "p1"

\* a key SETEX wrote is gone once its ttl has elapsed
RedisLive(e, t) == e.value # None /\ t < e.expiry

\* the chat handler and the prediction cache before their first call
ChatAtRest ==
  /\ limits_enabled = FALSE
  /\ now = 0
  /\ guest_usage = [f \in Fingerprints |-> NoRow]
  /\ guest_admitted = [f \in Fingerprints |-> 0]
  /\ users = [u \in RegisteredIds |-> DefaultUserRow]
  /\ conversations = [c \in ConvIds |-> [exists |-> FALSE, user_id |-> "", messages |-> <<>>]]
  /\ conversation_messages = [c \in ConvIds |-> <<>>]
  /\ query_response_cache = [k \in UserIds |-> "none"]
  /\ web_search_cache = {}
  /\ ws_rate = [u \in UserIds |-> [count |-> WebSearchLimit(u) - 1, expiry |-> 0]]
  /\ pc = [p \in Procs |-> "idle"]
  /\ req = [p \in Procs |-> NoReq]
  /\ loc = [p \in Procs |-> NoLoc]
  /\ eff = [p \in Procs |-> {}]
  /\ raised = [p \in Procs |-> NoExc]
  /\ out = [p \in Procs |-> NoOut]
  /\ received = 0
  /\ predictions = <<>>
  /\ pred_pc = [p \in Procs |-> "idle"]
  /\ pred_loc = [p \in Procs |-> NoPredLoc]
  /\ pred_hits = <<>>

\* Cache.get(key) by process p: Redis first when there is a client, its
\* answer or None; a Redis error falls through to the memory store, as
\* does a Cache without client; there an expired entry is deleted.
\* Gives the value returned (None: miss) and the memory store left.
Cache_get(p, k, redis_ok) ==
  IF redis_client /\ redis_ok
  THEN [value |-> IF RedisLive(redis_kv[k], kv_now) THEN redis_kv[k].value ELSE None,
        store |-> cache_store]
  ELSE LET e == cache_store[p][k]
       IN IF e.value = None THEN [value |-> None, store |-> cache_store]
          ELSE IF kv_now > e.expiry
          THEN [value |-> None, store |-> [cache_store EXCEPT ![p][k] = NoEntry]]
          ELSE [value |-> e.value, store |-> cache_store]

\* Cache.set(key, value, ttl) by process p: SETEX and return; on a Redis
\* error, or without client, the memory store takes the value
Cache_set(p, k, v, ttl, redis_ok) ==
  IF redis_client /\ redis_ok
  THEN [redis |-> [redis_kv EXCEPT ![k] = [value |-> v, expiry |-> kv_now + ttl]],
        store |-> cache_store]
  ELSE [redis |-> redis_kv,
        store |-> [cache_store EXCEPT ![p][k] = [value |-> v, expiry |-> kv_now + ttl]]]

\* Cache.clear() by process p: the Redis keys of the prefix are deleted
\* unless Redis raises; the memory store is emptied in either case
Cache_clear(p, redis_ok) ==
  [redis |-> IF redis_client /\ redis_ok THEN [k \in Keys |-> NoEntry] ELSE redis_kv,
   store |-> [cache_store EXCEPT ![p] = [k \in Keys |-> NoEntry]]]

\* whether the Redis command of a call answers
RedisAnswers == IF redis_client THEN BOOLEAN ELSE {TRUE}

CacheGetCall(k) ==
  \E redis_ok \in RedisAnswers :
    LET r == Cache_get(CacheOwner, k, redis_ok)
    IN /\ cache_store' = r.store
       /\ cache_ret' = [op |-> "get", key |-> k, value |-> r.value, at |-> kv_now,
                        redis_error |-> ~redis_ok]
       /\ UNCHANGED <<chat_vars, ext_vars, now, pred_vars, search_vars, redis_client, redis_kv,
                      kv_now, last_set, inc_pc, inc_loc>>

CacheSetCall(k, v, ttl) ==
  \E redis_ok \in RedisAnswers :
    LET r == Cache_set(CacheOwner, k, v, ttl, redis_ok)
    IN /\ redis_kv' = r.redis
       /\ cache_store' = r.store
       /\ cache_ret' = [op |-> "set", key |-> k, value |-> None, at |-> kv_now,
                        redis_error |-> ~redis_ok]
       /\ last_set' = [last_set EXCEPT ![k] = [value |-> v, at |-> kv_now, ttl |-> ttl]]
       /\ UNCHANGED <<chat_vars, ext_vars, now, pred_vars, search_vars, redis_client, kv_now,
                      inc_pc, inc_loc>>

CacheClearCall ==
  \E redis_ok \in RedisAnswers :
    LET r == Cache_clear(CacheOwner, redis_ok)
    IN /\ redis_kv' = r.redis
       /\ cache_store' = r.store
       /\ cache_ret' = [NoCacheRet EXCEPT !.op = "clear", !.at = kv_now,
                                          !.redis_error = ~redis_ok]
       /\ last_set' = [k \in Keys |-> NoSet]
       /\ UNCHANGED <<chat_vars, ext_vars, now, pred_vars, search_vars, redis_client, kv_now,
                      inc_pc, inc_loc>>

KvTick ==
  /\ kv_now < MaxKvTime
  /\ kv_now' = kv_now + 1
  /\ UNCHANGED <<chat_vars, ext_vars, now, pred_vars, search_vars, redis_client, redis_kv,
                 cache_store, cache_ret, last_set, inc_pc, inc_loc>>

InitCache ==
  /\ ChatAtRest
  /\ search_api_key = FALSE
  /\ SearchAtRest
  /\ ExtAtRest
  /\ redis_client \in BOOLEAN
  /\ redis_kv = [k \in Keys |-> NoEntry]
  /\ cache_store = [p \in Procs |-> [k \in Keys |-> NoEntry]]
  /\ kv_now = 0
  /\ cache_ret = NoCacheRet
  /\ last_set = [k \in Keys |-> NoSet]
  /\ inc_pc = [p \in Procs |-> "idle"]
  /\ inc_loc = [p \in Procs |-> NoIncLoc]

NextCache ==
  \/ \E k \in Keys : CacheGetCall(k)
  \/ \E k \in Keys : \E v \in Values : \E ttl \in Ttls : CacheSetCall(k, v, ttl)
  \/ CacheClearCall
  \/ KvTick

SpecCache == InitCache /\ [][NextCache]_vars

\* ------------------------------------- the rate counter by its processes
\* increment_web_search_count in two server processes that share the
\* Redis server (without one each counts in its own store).  The function
\* is a Cache.get followed by a Cache.set; inside one process nothing
\* runs between the two, another process's commands can.
CounterKey == "k1"

\* current_count = web_search_rate_limit_cache.get(key) or 0
IncRead(p) ==
  /\ inc_pc[p] = "idle"
  /\ \E redis_ok \in RedisAnswers :
       LET r == Cache_get(p, CounterKey, redis_ok)
           current_count == IF r.value = None THEN 0 ELSE r.value
       IN /\ current_count < MaxIncrements
          /\ cache_store' = r.store
          /\ inc_loc' = [inc_loc EXCEPT ![p] = [current_count |-> current_count,
                                                redis_error |-> ~redis_ok]]
  /\ inc_pc' = [inc_pc EXCEPT ![p] = "set"]
  /\ UNCHANGED <<chat_vars, ext_vars, now, pred_vars, search_vars, redis_client, redis_kv,
                 kv_now, cache_ret, last_set>>

\* new_count = current_count + 1; set(key, new_count, ttl=86400)
IncWrite(p) ==
  /\ inc_pc[p] = "set"
  /\ \E redis_ok \in RedisAnswers :
       LET r == Cache_set(p, CounterKey, inc_loc[p].current_count + 1, WS_COUNT_TTL,
                          redis_ok)
       IN /\ redis_kv' = r.redis
          /\ cache_store' = r.store
          /\ inc_loc' = [inc_loc EXCEPT ![p].redis_error = @ \/ ~redis_ok]
  /\ inc_pc' = [inc_pc EXCEPT ![p] = "idle"]
  /\ UNCHANGED <<chat_vars, ext_vars, now, pred_vars, search_vars, redis_client, kv_now,
                 cache_ret, last_set>>

NextCounter == \E p \in Procs : IncRead(p) \/ IncWrite(p)

SpecCounter == InitCache /\ [][NextCounter]_vars

\* ------------------------------------------ the search stage by itself
\* get_web_search_context from "2) Perform web search" to its sources,
\* for one query, with the web_search_cache entry of that query kept in
\* the memory store (time.time() > expiry is a miss).
ResultKinds == [host : {"site", "engine"}, snippet : {"text", "empty", "none"}]
ResultLists ==
  {<<>>} \cup {<<a>> : a \in ResultKinds}
         \cup {<<a, b>> : a \in {r \in ResultKinds : r.host = "engine" /\ r.snippet = "text"},
                          b \in {r \in ResultKinds : r.host = "site"}}
ProviderAnswers == {Answered(r) : r \in ResultLists} \cup {Non200, Failed}

\* is_search_engine(url): the host contains an engine's name
is_search_engine(result) == result.host = "engine"

\* format_search_results_for_context: every result is listed; a snippet
\* that is None has no replace() and raises AttributeError
format_search_results_for_context(results) ==
  IF \E i \in 1..Len(results) : results[i].snippet = "none"
  THEN [raised |-> TRUE, context |-> <<>>, evidence |-> <<>>]
  ELSE [raised |-> FALSE, context |-> [i \in 1..Len(results) |-> results[i].host],
        evidence |-> [i \in 1..Len(results) |-> [number |-> i, url |-> i]]]

\* extract_citations: one citation per result
extract_citations(results) == [i \in 1..Len(results) |-> results[i].host]

\* the "number" and the "url" of each citation; the url of a result is its
\* position in the provider's list
CitationNumbers(results) == [i \in 1..Len(results) |-> [number |-> i, url |-> i]]

\* the number a collected result gets in the prompt: idx_display, which
\* counts the results collected so far, not the position i of the result
EvidenceNumberByPosition(idx_display, i) == i

EvidenceNumber(idx_display, i) == idx_display

\* "3) Scrape & condense each result" and what follows: engine results
\* are skipped, a result counts with its page's text or else its snippet;
\* with no snippet collected the context and the sources are built from
\* the result list itself.  pages are the results whose page was fetched.
\* Gives the hosts named in the context and in the sources.
ScrapeAndCondense(results, pages) ==
  LET collected == {i \in 1..Len(results) :
                      /\ ~is_search_engine(results[i])
                      /\ i \in pages \/ results[i].snippet = "text"}
      scraped_sources == [j \in 1..Cardinality(collected) |-> "site"]
      \* the j-th collected result
      nth(j) == CHOOSE i \in collected : Cardinality({k \in collected : k < i}) = j - 1
      formatted == format_search_results_for_context(results)
  IN IF collected # {}
     THEN [context |-> scraped_sources, sources |-> scraped_sources, raised |-> FALSE,
           evidence |-> [j \in 1..Cardinality(collected) |->
                           [number |-> EvidenceNumber(j, nth(j)), url |-> nth(j)]],
           citations |-> [j \in 1..Cardinality(collected) |->
                            [number |-> j, url |-> nth(j)]]]
     ELSE IF formatted.raised THEN [NoTurnOut EXCEPT !.raised = TRUE]
     ELSE [context |-> formatted.context, sources |-> extract_citations(results),
           raised |-> FALSE, evidence |-> formatted.evidence,
           citations |-> CitationNumbers(results)]

\* A provider that is not asked gives no answer: Failed stands for it.
GetWebSearchContext(ttl, paid, free, pages) ==
  /\ Len(provider_calls) < MaxSearches
  /\ ~search_api_key => paid = Failed
  /\ (search_api_key /\ paid # Failed) => free = Failed
  /\ LET cached == IF kv_now > search_cache.expiry THEN <<>> ELSE search_cache.results
         search_results == async_search(search_api_key, cached, paid, free)
         found == search_results.returned /\ search_results.results # <<>>
         used_ttl == IF search_results.store.own_ttl
                     THEN (IF ttl = None THEN WEB_SEARCH_CACHE_TTL ELSE ttl)
                     ELSE DEFAULT_SEARCH_TTL
     IN /\ search_cache' = IF search_results.store.write
                           THEN [results |-> search_results.store.results,
                                 expiry |-> kv_now + used_ttl]
                           ELSE search_cache
        /\ search_ret' = [returned |-> search_results.returned,
                          results |-> search_results.results,
                          from_cache |-> search_results.from_cache,
                          calls |-> search_results.calls]
        /\ provider_calls' = IF search_results.calls = <<>> THEN provider_calls
                             ELSE Append(provider_calls, [at |-> kv_now, found |-> found])
        /\ turn_out' = IF found THEN ScrapeAndCondense(search_results.results, pages)
                       ELSE NoTurnOut
  /\ UNCHANGED <<chat_vars, ext_vars, now, pred_vars, kv_vars>>

InitSearch ==
  /\ ChatAtRest
  /\ search_api_key \in BOOLEAN
  /\ KvAtRest
  /\ SearchAtRest
  /\ ExtAtRest

\* the pages of a result list are all fetched or all not
NextSearch ==
  \/ \E ttl \in Ttls \cup {None} : \E paid \in ProviderAnswers :
       \E free \in ProviderAnswers \ {Non200} : \E pages \in {{}, {1, 2}} :
         GetWebSearchContext(ttl, paid, free, pages)
  \/ KvTick

SpecSearch == InitSearch /\ [][NextSearch]_vars

\* ------------------------------------------ user_profiles by its callers
\* update_user_profile for one user, called from two server processes that
\* share the Postgres table (autocommit connections): its SELECT and its
\* UPDATE or INSERT are separate statements.  last_active is left out.
PrefDeltas == [PrefKeys -> PrefValues \cup {Absent}]
StoredProfile == [exists |-> TRUE, preferences |-> [k \in PrefKeys |-> "asha"],
                  interests |-> {"technology"}, total_messages |-> 1]

\* preferences || %s::jsonb : the keys of the right operand overwrite
MergePreferences(old, delta) ==
  [k \in PrefKeys |-> IF delta[k] # Absent THEN delta[k] ELSE old[k]]

\* the UPDATE statement: every clause is added only for a truthy argument,
\* and no row matches when the user has none
UpdateRow(row, a) ==
  IF ~row.exists THEN row
  ELSE [row EXCEPT
          !.preferences = IF a.preferences # NoPrefs
                          THEN MergePreferences(@, a.preferences) ELSE @,
          !.interests = IF a.interests # {} THEN @ \cup a.interests ELSE @,
          !.total_messages = IF a.increment_messages THEN @ + 1 ELSE @]

\* the INSERT statement: total_messages starts at 1 whatever the flag
InsertRow(a) ==
  [exists |-> TRUE, preferences |-> a.preferences, interests |-> a.interests,
   total_messages |-> 1]

\* one call running alone
update_user_profile(row, a) ==
  IF row.exists THEN [row |-> UpdateRow(row, a), ret |-> TRUE]
  ELSE [row |-> InsertRow(a), ret |-> TRUE]

ProfCallsStarted ==
  Len(prof_log) + Cardinality({q \in Procs : prof_pc[q] # "idle"})

\* SELECT id FROM user_profiles WHERE user_id = %s
ProfSelect(p, preferences, interests, increment_messages) ==
  /\ prof_pc[p] = "idle"
  /\ ProfCallsStarted < MaxProfileCalls
  /\ prof_loc' = [prof_loc EXCEPT ![p] =
                    [preferences |-> preferences, interests |-> interests,
                     increment_messages |-> increment_messages,
                     exists |-> user_profiles.exists]]
  /\ prof_pc' = [prof_pc EXCEPT ![p] = "selected"]
  /\ UNCHANGED <<chat_vars, now, pred_vars, kv_vars, search_vars, admit_vars, rag_vars,
                 store_vars, user_profiles, prof_log>>

\* the UPDATE or the INSERT, the commit and the return; user_id is UNIQUE,
\* so an INSERT for a user who has a row by now raises, and the except
\* branch rolls back and returns False
ProfWrite(p) ==
  /\ prof_pc[p] = "selected"
  /\ LET a == prof_loc[p]
         unique_violation == ~a.exists /\ user_profiles.exists
         after == IF a.exists THEN UpdateRow(user_profiles, a)
                  ELSE IF unique_violation THEN user_profiles
                  ELSE InsertRow(a)
     IN /\ user_profiles' = after
        /\ prof_log' = Append(prof_log,
                         [preferences |-> a.preferences, interests |-> a.interests,
                          increment_messages |-> a.increment_messages,
                          ret |-> ~unique_violation,
                          before |-> user_profiles, after |-> after])
  /\ prof_pc' = [prof_pc EXCEPT ![p] = "idle"]
  /\ prof_loc' = [prof_loc EXCEPT ![p] = NoProfLoc]
  /\ UNCHANGED <<chat_vars, now, pred_vars, kv_vars, search_vars, admit_vars, rag_vars,
                 store_vars>>

InitProfile ==
  /\ ChatAtRest
  /\ search_api_key = FALSE
  /\ KvAtRest
  /\ SearchAtRest
  /\ RagAtRest
  /\ StoreAtRest
  /\ AdmitAtRest
  /\ user_profiles \in {NoProfile, StoredProfile}
  /\ prof_pc = [p \in Procs |-> "idle"]
  /\ prof_loc = [p \in Procs |-> NoProfLoc]
  /\ prof_log = <<>>

NextProfile ==
  \E p \in Procs :
    \/ \E preferences \in PrefDeltas : \E interests \in SUBSET Interests :
         \E increment_messages \in BOOLEAN :
           ProfSelect(p, preferences, interests, increment_messages)
    \/ ProfWrite(p)

SpecProfile == InitProfile /\ [][NextProfile]_vars

\* ------------------------------------------------ the RAG stage by itself
\* build_rag_context for one user.  A query is its words after
\* query.lower().split(); a trigger matches when one of its words is in the
\* query, which is what the substring test gives for this vocabulary.
Words == {"remember", "hello", "what", "tea"}
Queries == UNION {[1..n -> Words] : n \in 0..MaxWords}
memory_triggers == {"remember"}
skip_triggers == {"hello"}
question_words == {"what"}
StoredMessages == {<<"tea">>, <<"remember", "tea">>}
Matches(query, triggers) == \E i \in 1..Len(query) : query[i] \in triggers

should_use_rag_query(query) ==
  IF Matches(query, memory_triggers) THEN TRUE
  ELSE IF Matches(query, skip_triggers) /\ Len(query) < SHORT_QUERY_WORDS THEN FALSE
  ELSE IF Matches(query, question_words) THEN TRUE
  ELSE FALSE

\* EmbeddingService.embed_text: no vector for an empty text, else a vector
\* that depends on the words and not on their order
embed_text(text) ==
  IF text = <<>> THEN {} ELSE {text[i] : i \in 1..Len(text)}

\* the header build_rag_context puts together from the stored profile, or
\* from the session dictionaries when the user has no row
ProfileHeader(row, session_prefs, session_name) ==
  IF row.exists
  THEN LET name == row.preferences["name"]
           known == row.preferences # NoPrefs \/ row.interests # {}
       IN [name |-> name,
           heading |-> IF known /\ name = Absent THEN "known" ELSE "",
           interests |-> IF known THEN row.interests ELSE {}]
  ELSE LET name == session_prefs["name"]
       IN [name |-> IF name # Absent THEN name ELSE session_name,
           heading |-> IF session_prefs # NoPrefs THEN "session" ELSE "",
           interests |-> {}]

\* embed_text calls of one build_rag_context: the only one follows the
\* return of the gate and the read of user_conversations
EmbeddingCallsUngated(needs_rag, row) == IF row.exists THEN 1 ELSE 0

EmbeddingCalls(needs_rag, row) ==
  IF ~needs_rag THEN 0 ELSE IF ~row.exists THEN 0 ELSE 1

\* build_rag_context: the gate, the header, and for a query that needs
\* memory the steps up to the first one that raises.  user_conversations is
\* read before the function assigns it when the user has no row, and the
\* list embed_text returns is awaited; either error reaches the except
\* branch, which returns the empty string.
build_rag_context_call(query, row, session_prefs, session_name) ==
  LET needs_rag == should_use_rag_query(query)
      profile_context == ProfileHeader(row, session_prefs, session_name)
  IN IF ~needs_rag
     THEN [called |-> TRUE, needs_rag |-> FALSE, header |-> profile_context,
           items |-> <<>>, embedding_calls |-> EmbeddingCalls(needs_rag, row),
           vector_searches |-> 0, raised |-> "None"]
     ELSE [called |-> TRUE, needs_rag |-> TRUE, header |-> EmptyHeader,
           items |-> <<>>, embedding_calls |-> EmbeddingCalls(needs_rag, row),
           vector_searches |-> 0,
           raised |-> IF ~row.exists THEN "UnboundLocalError" ELSE "TypeError"]

\* vector_store.add_memory with the content and the embedding of one message
AddMemory(message, is_personal_info) ==
  /\ Cardinality(chat_vectors) < MaxMemories
  /\ chat_vectors' = chat_vectors \cup
       {[content |-> message, embedding |-> embed_text(message),
         is_personal_info |-> is_personal_info]}
  /\ UNCHANGED <<chat_vars, now, pred_vars, kv_vars, search_vars, admit_vars, profile_vars,
                 store_vars, rag_query, in_memory_profiles, in_memory_names, rag_out>>

BuildRagContext ==
  /\ rag_out' = build_rag_context_call(rag_query, user_profiles, in_memory_profiles,
                                       in_memory_names)
  /\ UNCHANGED <<chat_vars, now, pred_vars, kv_vars, search_vars, admit_vars, profile_vars,
                 store_vars, rag_query, chat_vectors, in_memory_profiles, in_memory_names>>

InitRag ==
  /\ ChatAtRest
  /\ search_api_key = FALSE
  /\ KvAtRest
  /\ SearchAtRest
  /\ StoreAtRest
  /\ AdmitAtRest
  /\ prof_pc = [p \in Procs |-> "idle"]
  /\ prof_loc = [p \in Procs |-> NoProfLoc]
  /\ prof_log = <<>>
  /\ user_profiles \in {NoProfile, StoredProfile}
  /\ rag_query \in Queries
  /\ chat_vectors = {}
  /\ in_memory_profiles \in {NoPrefs, [k \in PrefKeys |-> "ravi"]}
  /\ in_memory_names = in_memory_profiles["name"]
  /\ rag_out = NoRagOut

NextRag ==
  \/ \E message \in StoredMessages : \E is_personal_info \in BOOLEAN :
       AddMemory(message, is_personal_info)
  \/ BuildRagContext

SpecRag == InitRag /\ [][NextRag]_vars

\* ------------------------------------ the conversation store by its callers
\* The writes of a chat turn and the conversation endpoints, in one server
\* process.  A message is its number, its role and the length of its
\* content; Postgres answers a handler or fails it as a whole.
Lengths == {CONTENT_LIMIT, CONTENT_LIMIT + 1}
ReplyLength == 1
ProfileOwner == "u1"
StoredMemory == [content |-> <<"tea">>, embedding |-> embed_text(<<"tea">>),
                 is_personal_info |-> FALSE]

\* content[:4000]
Truncate(m) == [m EXCEPT !.length = IF @ > CONTENT_LIMIT THEN CONTENT_LIMIT ELSE @]

\* conversation.messages[-config.CONVERSATION_HISTORY_LIMIT:]
LastN(seq, n) ==
  IF Len(seq) <= n THEN seq ELSE SubSeq(seq, Len(seq) - n + 1, Len(seq))

\* log_conversation_message with the content: nothing for a guest_ user, and
\* nothing when the INSERT fails
LogMessage(rows, uid, c, m, db_ok) ==
  IF StartsWithGuestUnderscore(uid) \/ ~db_ok THEN rows
  ELSE Append(rows, [conversation_id |-> c, user_id |-> uid, message |-> Truncate(m)])

RowsOf(c) == SelectSeq(conv_rows, LAMBDA r : r.conversation_id = c)
MemoryIdsOf(uid) ==
  {c \in StoreConvIds : conv_memory[c].exists /\ conv_memory[c].user_id = uid}

\* chat(), an admitted turn that misses the response cache: the
\* conversation is taken from chat.conversations or created empty (the
\* history load awaits embed_text's list and loads nothing), the message is
\* appended and logged, the LLM gets the last messages, the reply is
\* appended and logged
StoreTurn(uid, c, length, db_ok) ==
  /\ msg_seq < 2 * MaxTurns
  /\ LET conversation == IF conv_memory[c].exists THEN conv_memory[c]
                         ELSE [exists |-> TRUE, user_id |-> uid, messages |-> <<>>]
         request_message == [id |-> msg_seq + 1, role |-> "user", length |-> length]
         response_text == [id |-> msg_seq + 2, role |-> "assistant",
                           length |-> ReplyLength]
         asked == Append(conversation.messages, request_message)
     IN /\ llm_history' = [user_id |-> uid,
                            messages |-> LastN(asked, CONVERSATION_HISTORY_LIMIT)]
        /\ conv_memory' = [conv_memory EXCEPT ![c] =
                             [conversation EXCEPT !.messages = Append(asked, response_text)]]
        /\ conv_rows' = LogMessage(LogMessage(conv_rows, uid, c, request_message, db_ok),
                                   uid, c, response_text, db_ok)
  /\ msg_seq' = msg_seq + 2
  /\ UNCHANGED <<chat_vars, now, pred_vars, kv_vars, search_vars, admit_vars, profile_vars,
                 rag_vars, store_ret, purged>>

\* GET /conversations/{conversation_id}: the 404 for no rows is raised inside
\* the try block, so it reaches the same except branch as a database error
GetConversation(c, db_ok) ==
  /\ LET rows == RowsOf(c)
     IN store_ret' =
          IF db_ok /\ rows # <<>>
          THEN [op |-> "get", conversation_id |-> c, status |-> 200,
                messages |-> [i \in 1..Len(rows) |-> rows[i].message], ids |-> {}]
          ELSE IF conv_memory[c].exists
          THEN [op |-> "get", conversation_id |-> c, status |-> 200,
                messages |-> conv_memory[c].messages, ids |-> {}]
          ELSE [op |-> "get", conversation_id |-> c, status |-> 500,
                messages |-> <<>>, ids |-> {}]
  /\ UNCHANGED <<chat_vars, now, pred_vars, kv_vars, search_vars, admit_vars, profile_vars,
                 rag_vars, conv_rows, conv_memory, llm_history, msg_seq, purged>>

\* GET /conversations: the rows of the user grouped by conversation; the
\* in-process dictionary only for a guest_ user
ListConversations(uid, db_ok) ==
  /\ LET user_convos == {conv_rows[i].conversation_id :
                           i \in {j \in 1..Len(conv_rows) : conv_rows[j].user_id = uid}}
         guest == StartsWithGuestUnderscore(uid)
     IN store_ret' =
          IF db_ok
          THEN [op |-> "list", conversation_id |-> "", status |-> 200, messages |-> <<>>,
                ids |-> IF user_convos = {} /\ guest THEN MemoryIdsOf(uid) ELSE user_convos]
          ELSE IF guest
          THEN [op |-> "list", conversation_id |-> "", status |-> 200, messages |-> <<>>,
                ids |-> MemoryIdsOf(uid)]
          ELSE [op |-> "list", conversation_id |-> "", status |-> 500, messages |-> <<>>,
                ids |-> {}]
  /\ UNCHANGED <<chat_vars, now, pred_vars, kv_vars, search_vars, admit_vars, profile_vars,
                 rag_vars, conv_rows, conv_memory, llm_history, msg_seq, purged>>

\* DELETE /conversations/{conversation_id}: a failed DELETE is printed, the
\* entry of the dictionary is removed either way
DeleteConversation(c, db_ok) ==
  /\ conv_rows' = IF db_ok THEN SelectSeq(conv_rows, LAMBDA r : r.conversation_id # c)
                  ELSE conv_rows
  /\ conv_memory' = [conv_memory EXCEPT ![c] = NoConversation]
  /\ store_ret' = [op |-> "delete", conversation_id |-> c, status |-> 200,
                   messages |-> <<>>, ids |-> {}]
  /\ UNCHANGED <<chat_vars, now, pred_vars, kv_vars, search_vars, admit_vars, profile_vars,
                 rag_vars, llm_history, msg_seq, purged>>

\* DELETE /conversations?confirm=true: the rows of the user, then
\* vector_store.delete_user_data; chat.conversations and the session
\* profiles are not touched
DeleteConversations(uid, db_ok, vectors_ok) ==
  /\ conv_rows' = IF db_ok THEN SelectSeq(conv_rows, LAMBDA r : r.user_id # uid)
                  ELSE conv_rows
  /\ IF vectors_ok /\ uid = ProfileOwner
     THEN chat_vectors' = {} /\ user_profiles' = NoProfile
     ELSE UNCHANGED <<chat_vectors, user_profiles>>
  /\ store_ret' = [op |-> "delete_all", conversation_id |-> "", status |-> 200,
                   messages |-> <<>>, ids |-> {}]
  /\ purged' = [purged EXCEPT ![uid] = msg_seq]
  /\ UNCHANGED <<chat_vars, now, pred_vars, kv_vars, search_vars, admit_vars, prof_pc, prof_loc,
                 prof_log, rag_query, in_memory_profiles, in_memory_names, rag_out,
                 conv_memory, llm_history, msg_seq>>

InitStore ==
  /\ ChatAtRest
  /\ search_api_key = FALSE
  /\ KvAtRest
  /\ SearchAtRest
  /\ user_profiles = StoredProfile
  /\ prof_pc = [p \in Procs |-> "idle"]
  /\ prof_loc = [p \in Procs |-> NoProfLoc]
  /\ prof_log = <<>>
  /\ rag_query = <<>>
  /\ chat_vectors = {StoredMemory}
  /\ in_memory_profiles = NoPrefs
  /\ in_memory_names = Absent
  /\ rag_out = NoRagOut
  /\ StoreAtRest
  /\ AdmitAtRest

NextStore ==
  \/ \E uid \in StoreUsers : \E c \in StoreConvIds : \E length \in Lengths :
       \E db_ok \in BOOLEAN : StoreTurn(uid, c, length, db_ok)
  \/ \E c \in StoreConvIds : \E db_ok \in BOOLEAN : GetConversation(c, db_ok)
  \/ \E uid \in StoreUsers : \E db_ok \in BOOLEAN : ListConversations(uid, db_ok)
  \/ \E c \in StoreConvIds : \E db_ok \in BOOLEAN : DeleteConversation(c, db_ok)
  \/ \E uid \in StoreUsers : \E db_ok \in BOOLEAN : \E vectors_ok \in BOOLEAN :
       DeleteConversations(uid, db_ok, vectors_ok)

SpecStore == InitStore /\ [][NextStore]_vars

\* --------------------------------------------- admission and subscription
\* The limit check of chat() run by one request at a time, with the limits
\* enabled, and upgrade_subscription as the payment router calls it.  The
\* user store answers a request or fails all its statements.

\* the columns of a users row that upgrade_subscription writes
WithSubscription(row) ==
  [tier |-> row.tier, messages_lifetime |-> row.messages_lifetime,
   messages_today |-> row.messages_today, daily_reset_at |-> row.daily_reset_at,
   subscription_status |-> "active", subscription_expires_at |-> None,
   razorpay_subscription_id |-> ""]

\* check_and_increment_message on the row its SELECT found
CheckAndIncrement(row, t) ==
  LET after_reset == IF ResetDue(row.daily_reset_at, t)
                     THEN [row EXCEPT !.messages_today = 0, !.daily_reset_at = t + Day]
                     ELSE row
      reason == LimitReason(after_reset.tier, after_reset.messages_lifetime,
                            after_reset.messages_today)
  IN [row |-> DecideRow(after_reset, reason), reason |-> reason]

\* chat(): "Check free limits ..." and "Check subscription limits ...".
\* get_guest_usage answers 0 and track_guest_usage writes nothing when the
\* store fails; check_and_increment_message then answers {"allowed": True};
\* a user id that enters neither branch is not checked at all.
Admission(uid, fp, db_ok) ==
  IF IsGuestPrincipal(uid)
  THEN LET count == IF db_ok THEN get_guest_usage(fp) ELSE 0
       IN IF GuestLimitReached(count)
          THEN [path |-> "guest", proceeds |-> FALSE, reason |-> "free_limit_exceeded",
                guest_usage |-> guest_usage, users |-> users]
          ELSE [path |-> "guest", proceeds |-> TRUE, reason |-> NoReason,
                guest_usage |-> IF db_ok
                                THEN TrackWrite(guest_usage, fp, guest_usage[fp] # NoRow)
                                ELSE guest_usage,
                users |-> users]
  ELSE IF IsRegisteredBranch(uid)
  THEN IF ~db_ok
       THEN [path |-> "registered", proceeds |-> TRUE, reason |-> NoReason,
             guest_usage |-> guest_usage, users |-> users]
       ELSE IF uid \notin RegisteredIds
       THEN [path |-> "registered", proceeds |-> FALSE, reason |-> "User not found",
             guest_usage |-> guest_usage, users |-> users]
       ELSE LET checked == CheckAndIncrement(users[uid], now)
            IN [path |-> "registered", proceeds |-> checked.reason = "allowed",
                reason |-> IF checked.reason = "allowed" THEN NoReason ELSE checked.reason,
                guest_usage |-> guest_usage,
                users |-> [users EXCEPT ![uid] = checked.row]]
  ELSE [path |-> "none", proceeds |-> TRUE, reason |-> NoReason,
        guest_usage |-> guest_usage, users |-> users]

AdmitTurn(user_id, fp, db_ok) ==
  /\ limits_enabled
  /\ admit_ret.seq < MaxAdmissions
  /\ LET uid == IF user_id = "" THEN FallbackGuestId(fp) ELSE user_id
         a == Admission(uid, fp, db_ok)
     IN /\ IsGuestPrincipal(uid) \/ fp = "f1"
        /\ guest_usage' = a.guest_usage
        /\ users' = a.users
        /\ guest_admitted' = IF a.path = "guest" /\ a.proceeds
                             THEN [guest_admitted EXCEPT ![fp] = @ + 1]
                             ELSE guest_admitted
        /\ admit_ret' = [seq |-> admit_ret.seq + 1, op |-> "admit", user_id |-> uid,
                         fp |-> fp, path |-> a.path, proceeds |-> a.proceeds,
                         reason |-> a.reason, tier |-> "free", ok |-> db_ok]
        /\ last_denial' = IF uid \in RegisteredIds
                          THEN [last_denial EXCEPT ![uid] = a.reason]
                          ELSE last_denial
  /\ UNCHANGED <<config_vars, now, conv_vars, cache_vars, pc, req, loc, eff, raised,
                 out, received, pred_vars, kv_vars, search_vars, profile_vars,
                 rag_vars, store_vars>>

\* variant: the upgrade starts the counters again
UpgradeRowResetCounters(row, tier, t) ==
  [row EXCEPT !.tier = tier, !.subscription_status = "active",
              !.subscription_expires_at = t + SUBSCRIPTION_DAYS * Day,
              !.razorpay_subscription_id = "sub_1",
              !.messages_lifetime = 0, !.messages_today = 0]

\* upgrade_subscription: the UPDATE for a paid tier
UpgradeRow(row, tier, t) ==
  [row EXCEPT !.tier = tier, !.subscription_status = "active",
              !.subscription_expires_at = t + SUBSCRIPTION_DAYS * Day,
              !.razorpay_subscription_id = "sub_1"]

\* verify_payment -> upgrade_subscription(user_id, plan, subscription_id):
\* True unless the store fails, also when no row matched
UpgradeSubscription(uid, tier, db_ok) ==
  /\ admit_ret.seq < MaxAdmissions
  /\ users' = IF db_ok /\ uid \in RegisteredIds
              THEN [users EXCEPT ![uid] = UpgradeRow(@, tier, now)]
              ELSE users
  /\ admit_ret' = [seq |-> admit_ret.seq + 1, op |-> "upgrade", user_id |-> uid,
                   fp |-> "f1", path |-> "none", proceeds |-> FALSE,
                   reason |-> NoReason, tier |-> tier, ok |-> db_ok]
  /\ UNCHANGED <<config_vars, now, guest_usage, guest_admitted, conv_vars, cache_vars,
                 pc, req, loc, eff, raised, out, received, pred_vars, kv_vars,
                 search_vars, profile_vars, rag_vars, store_vars, last_denial>>

InitAdmit ==
  /\ limits_enabled = TRUE
  /\ search_api_key = FALSE
  /\ now = 0
  /\ \E q \in QuotaPresets :
       /\ guest_usage = [f \in Fingerprints |-> IF f = "f1" THEN q.guest ELSE NoRow]
       /\ guest_admitted = [f \in Fingerprints |->
                              IF f = "f1" /\ q.guest # NoRow THEN q.guest ELSE 0]
       /\ users = [u \in RegisteredIds |->
                     WithSubscription(IF u = "u1" THEN q.user ELSE DefaultUserRow)]
  /\ conversations = [c \in ConvIds |-> [exists |-> FALSE, user_id |-> "", messages |-> <<>>]]
  /\ conversation_messages = [c \in ConvIds |-> <<>>]
  /\ query_response_cache = [k \in UserIds |-> "none"]
  /\ web_search_cache = {}
  /\ ws_rate = [u \in UserIds |-> [count |-> WebSearchLimit(u) - 1, expiry |-> 0]]
  /\ pc = [p \in Procs |-> "idle"]
  /\ req = [p \in Procs |-> NoReq]
  /\ loc = [p \in Procs |-> NoLoc]
  /\ eff = [p \in Procs |-> {}]
  /\ raised = [p \in Procs |-> NoExc]
  /\ out = [p \in Procs |-> NoOut]
  /\ received = 0
  /\ predictions = <<>>
  /\ pred_pc = [p \in Procs |-> "idle"]
  /\ pred_loc = [p \in Procs |-> NoPredLoc]
  /\ pred_hits = <<>>
  /\ KvAtRest
  /\ SearchAtRest
  /\ ExtAtRest

NextAdmit ==
  \/ \E user_id \in {"", "anonymous-user", "guest", "u1", "u9"} : \E fp \in Fingerprints : \E db_ok \in BOOLEAN :
       AdmitTurn(user_id, fp, db_ok)
  \/ \E uid \in {"u1", "u9"} : \E tier \in {"limited", "unlimited"} : \E db_ok \in BOOLEAN :
       UpgradeSubscription(uid, tier, db_ok)
  \/ Tick

SpecAdmit == InitAdmit /\ [][NextAdmit]_vars

C3_DenialKeepsAllCounters ==
  [][\A p \in Procs :
       (pc[p] # "done" /\ pc'[p] = "done" /\ raised'[p].status = 403) =>
         /\ guest_usage' = guest_usage
         /\ \A v \in RegisteredIds \ {req[p].user_id} : users'[v] = users[v]
         /\ req[p].user_id \in RegisteredIds =>
              /\ users'[req[p].user_id].messages_lifetime = loc[p].row_lifetime
              /\ users'[req[p].user_id].messages_today = loc[p].row_today]_vars

\* C3 amended: a refused message leaves the guest message_count and
\* messages_lifetime as the request found them, and messages_today too
\* unless the daily reset was due on that call: then messages_today is 0
\* and daily_reset_at is the new deadline.
C3_DenialKeepsCountersButReset ==
  [][\A p \in Procs :
       (pc[p] # "done" /\ pc'[p] = "done" /\ raised'[p].status = 403) =>
         /\ guest_usage' = guest_usage
         /\ \A v \in RegisteredIds \ {req[p].user_id} : users'[v] = users[v]
         /\ req[p].user_id \in RegisteredIds =>
              /\ users'[req[p].user_id].messages_lifetime = loc[p].row_lifetime
              /\ users'[req[p].user_id].messages_today =
                   (IF loc[p].did_reset THEN 0 ELSE loc[p].row_today)
              /\ users'[req[p].user_id].daily_reset_at = loc[p].daily_reset_at]_vars

\* a lifetime_limit refusal on a call that reset a non-zero daily counter
C3_Witness ==
  \E p \in Procs :
    /\ pc[p] = "done"
    /\ raised[p].reason = "lifetime_limit"
    /\ loc[p].did_reset
    /\ loc[p].row_today > 0
    /\ users[req[p].user_id].messages_today = 0
    /\ users[req[p].user_id].messages_lifetime = loc[p].row_lifetime

\* C4: whatever way concurrent calls interleave, messages_lifetime stays
\* within the plan's total and messages_today within the plan's daily
\* limit, for the tiers that have one.
C4_CountersWithinPlan ==
  \A u \in RegisteredIds :
    LET plan == SUBSCRIPTION_PLANS[users[u].tier]
    IN /\ plan.messages_total # None =>
            users[u].messages_lifetime <= plan.messages_total
       /\ plan.messages_per_day # None =>
            users[u].messages_today <= plan.messages_per_day

\* C5: whatever way concurrent requests of one fingerprint interleave, at
\* most FREE_CHAT_LIMIT of them are admitted and the stored message_count
\* is the number admitted.
C5_GuestAdmissionAtomic ==
  limits_enabled =>
    \A f \in Fingerprints :
      /\ guest_admitted[f] <= FREE_CHAT_LIMIT
      /\ get_guest_usage(f) = guest_admitted[f]

\* C6: a call that finds now >= daily_reset_at sets messages_today to 0 and
\* daily_reset_at to now + Day, touching nothing else of the row, before
\* the limits are evaluated (on 0); a call that finds the deadline ahead
\* changes nothing; so a limited-tier user is admitted on the call that
\* resets, and the deadline moves only at a reset that is due.
C6_DailyReset ==
  [][/\ \A p \in Procs :
          (pc[p] = "reg_reset" /\ pc'[p] = "reg_decide") =>
            LET u == req[p].user_id
            IN IF now >= users[u].daily_reset_at
               THEN /\ users'[u] = [users[u] EXCEPT !.messages_today = 0,
                                                   !.daily_reset_at = now + Day]
                    /\ loc'[p].messages_today = 0
               ELSE /\ users'[u] = users[u]
                    /\ loc'[p].messages_today = users[u].messages_today
     /\ \A p \in Procs :
          (pc[p] = "reg_decide" /\ pc'[p] # "reg_decide"
             /\ loc[p].did_reset /\ loc[p].tier = "limited") =>
            pc'[p] = "begin_turn"
     /\ \A u \in RegisteredIds :
          users'[u].daily_reset_at # users[u].daily_reset_at =>
            /\ now >= users[u].daily_reset_at
            /\ users'[u].daily_reset_at = now + Day
            /\ users'[u].messages_lifetime = users[u].messages_lifetime]_vars

\* a limited-tier user at the daily limit, admitted on the call that resets
C6_Witness ==
  \E p \in Procs :
    /\ pc[p] = "begin_turn"
    /\ loc[p].tier = "limited"
    /\ loc[p].did_reset
    /\ loc[p].row_today >= PLAN_LIMITED_DAILY
    /\ users[req[p].user_id].daily_reset_at = now + Day

\* C7: for a request refused by the quota check no LLM, embedding, search
\* or scrape call and no conversation or cache write is made: none is
\* recorded for it, and no step of the admission touches the conversation
\* stores or the caches.
C7_DenialShortCircuits ==
  [][\A p \in Procs :
       /\ raised'[p].status = 403 => eff'[p] = {}
       /\ pc[p] \in {"guest_check", "track_select", "track_write",
                     "reg_select", "reg_reset", "reg_decide"} =>
            UNCHANGED <<conv_vars, cache_vars>>]_vars

\* a registered user refused with daily_limit
C7_Witness ==
  \E p \in Procs :
    /\ pc[p] = "done"
    /\ raised[p].status = 403
    /\ raised[p].reason = "daily_limit"
    /\ eff[p] = {}

\* C8: a request refused by the quota check reaches the caller as the
\* admission error with its structured data, never as a 500.
C8_DenialSurfacesStructured ==
  \A p \in Procs :
    (pc[p] = "done" /\ raised[p].status = 403) =>
      /\ out[p].status = 403
      /\ out[p].structured
      /\ out[p].error = raised[p].error
      /\ out[p].limit = raised[p].limit
      /\ out[p].used = raised[p].used

\* C9: an assistant message is appended, to the in-memory history or to
\* the conversation store, only by a turn whose LLM call succeeded; a turn
\* whose LLM call failed ends in a 500, appends nothing and writes nothing
\* to the response cache.
C9_AssistantOnlyAfterLLMSuccess ==
  [][/\ \A c \in ConvIds :
          (\/ /\ conversations'[c] # conversations[c]
              /\ conversations'[c].messages[Len(conversations'[c].messages)] = "assistant"
           \/ /\ conversation_messages'[c] # conversation_messages[c]
              /\ conversation_messages'[c][Len(conversation_messages'[c])].role = "assistant") =>
            \E p \in Procs : /\ pc[p] = "finish"
                             /\ req[p].conversation_id = c
                             /\ "llm" \in eff[p]
                             /\ loc[p].response_text \in {"text", "numeric"}
     /\ \A p \in Procs :
          (pc[p] = "finish" /\ pc'[p] # "finish" /\ loc[p].response_text = "error_text") =>
            /\ pc'[p] = "done"
            /\ out'[p].status = 500
            /\ "cache_write" \notin eff'[p]
            /\ UNCHANGED <<conv_vars, query_response_cache>>]_vars

\* a turn of a persisted principal whose LLM call failed
C9_Witness ==
  \E p \in Procs :
    /\ pc[p] = "done"
    /\ "llm" \in eff[p]
    /\ loc[p].response_text = "error_text"
    /\ out[p].status = 500
    /\ ~StartsWithGuestUnderscore(req[p].user_id)
    /\ conversation_messages[req[p].conversation_id]
         [Len(conversation_messages[req[p].conversation_id])].role = "user"

\* C10: every admitted turn of a persisted conversation that is answered
\* (its LLM call did not fail) leaves its user message followed by an
\* assistant message, so that the persisted messages alternate.
C10_AnsweredTurnsPaired ==
  \A p \in Procs :
    (/\ pc[p] = "done"
     /\ out[p].status = 200
     /\ ~StartsWithGuestUnderscore(req[p].user_id)) =>
      LET s == conversation_messages[req[p].conversation_id]
      IN /\ Len(s) >= 2
         /\ s[Len(s) - 1].role = "user"
         /\ s[Len(s)].role = "assistant"

\* C11: a retrieval sub-stage of the fan-out that fails or times out (the
\* web search that returns nothing, the prediction-cache hit path that
\* raises) does not end the turn: the stage contributes an empty result,
\* the LLM is called, and the caller receives a response, not an exception.
C11_SubStageFailureAbsorbed ==
  \A p \in Procs :
    (/\ pc[p] = "done"
     /\ loc[p].can_use_web_search
     /\ loc[p].web_search_context = "") =>
       /\ "llm" \in eff[p]
       /\ raised[p] = NoExc
       /\ out[p].status = 200

\* C12: guest isolation: no row of the conversation store is written under
\* a principal of the guest class ('anonymous-user', 'guest_...',
\* 'guest-...'), and no turn of such a principal reaches the writes of the
\* memory store ("embed" is the call every memory and profile write of a
\* turn comes after).
C12_GuestIsolation ==
  /\ \A c \in ConvIds : \A i \in 1..Len(conversation_messages[c]) :
       ~IsGuestPrincipal(conversation_messages[c][i].user_id)
  /\ \A p \in Procs :
       IsGuestPrincipal(req[p].user_id) => eff[p] \cap {"conv_write", "embed"} = {}

\* C13: a conversation belongs to the principal that created it: a turn of
\* another principal that supplies its conversation_id appends nothing to
\* it (neither in memory nor in the conversation store), and the LLM is
\* never called with that conversation's messages as the other principal's
\* history.
C13_ConversationOwnedByOnePrincipal ==
  [][\A p \in Procs : \A c \in ConvIds :
       (conversations[c].exists /\ conversations[c].user_id # req[p].user_id
          /\ req[p].conversation_id = c /\ pc[p] # pc'[p] /\ pc[p] \notin {"idle", "done"}) =>
         /\ conversations'[c].messages = conversations[c].messages
         /\ conversation_messages'[c] = conversation_messages[c]
         /\ ~(pc[p] = "llm" /\ Len(conversations[c].messages) > 1)]_vars

C15_FreshTurnNotCached ==
  [][\A p \in Procs :
       (pc[p] = "finish" /\ pc'[p] = "done"
          /\ (req[p].include_web_search
                \/ (should_trigger_web_search(req[p].message)
                      /\ build_rag_context(req[p].user_id, req[p].message) = ""))) =>
         /\ query_response_cache' = query_response_cache
         /\ "cache_write" \notin eff'[p]]_vars

\* C16: for every key and in every state of the table, the row
\* get_cached_prediction finds for the key is active and expires after now,
\* and when every row of the key is expired or inactive it finds none; what
\* the method returns is the row its SELECT found.
C16_OnlyFreshActiveServed ==
  /\ \A k \in PredKeys :
       LET id == SelectCachedPrediction(predictions, k.sport, k.query_type,
                                        k.match_details, NowHours)
           servable == { i \in 1..Len(predictions) :
                           /\ predictions[i].sport = k.sport
                           /\ predictions[i].query_type = k.query_type
                           /\ Lower(predictions[i].match_details) = Lower(k.match_details)
                           /\ predictions[i].expires_at > NowHours
                           /\ predictions[i].is_active }
       IN /\ id # NoRow => id \in servable
          /\ servable = {} => id = NoRow
  /\ \A p \in Procs : pred_loc[p].returned \in {NoRow, pred_loc[p].id}

\* a lookup has found a servable row of a key that also has a row that
\* expired and was deactivated
C16_Witness ==
  \E p \in Procs : \E j \in 1..Len(predictions) :
    /\ pred_pc[p] = "update"
    /\ j # pred_loc[p].id
    /\ Lower(predictions[j].match_details) = Lower(predictions[pred_loc[p].id].match_details)
    /\ predictions[j].expires_at <= NowHours
    /\ ~predictions[j].is_active
    /\ predictions[pred_loc[p].id].expires_at > NowHours
    /\ predictions[pred_loc[p].id].is_active

\* C17: in every state of the prediction cache, whatever inserts came
\* before, at most one bundle of a key (sport, query_type, lowercased
\* match_details) is active: no two rows of one key both have is_active
\* set and an expiry after now.
C17_OneActiveBundlePerKey ==
  \A i, j \in 1..Len(predictions) :
    (/\ i # j
     /\ predictions[i].sport = predictions[j].sport
     /\ predictions[i].query_type = predictions[j].query_type
     /\ Lower(predictions[i].match_details) = Lower(predictions[j].match_details)
     /\ predictions[i].is_active /\ predictions[i].expires_at > NowHours) =>
       ~(predictions[j].is_active /\ predictions[j].expires_at > NowHours)

\* C18: once a sports turn has missed the prediction cache and written the
\* bundle of its key back, a later sports turn for the same key that comes
\* before the bundle's expiry, by whichever user, calls no search provider:
\* it leaves the fan-out without a search, and the bundle stays the only
\* one the two turns wrote.
C18_HitMakesNoProviderCall ==
  [][\A p \in Procs :
       (/\ pc[p] = "fanout" /\ pc'[p] # "fanout"
        /\ loc[p].can_use_web_search
        /\ is_sports_query(req[p].message)
        /\ \E i \in 1..Len(predictions) :
             /\ predictions[i].match_details = extract_match_details(req[p].message)
             /\ predictions[i].is_active
             /\ predictions[i].expires_at > NowHours) =>
         /\ pc'[p] = "llm"
         /\ "search" \notin eff'[p]
         /\ Len(predictions') = Len(predictions)]_vars

\* a sports turn has been served after a hit on a bundle another user's
\* turn wrote, without a search
C18_Witness ==
  \E p \in Procs :
    /\ pc[p] = "done"
    /\ loc[p].cached_prediction # NoRow
    /\ predictions[loc[p].cached_prediction].expires_at > NowHours
    /\ eff[p] \cap {"search", "scrape"} = {}
    /\ "llm" \in eff[p]
    /\ \E c \in ConvIds : \E i \in 1..Len(conversation_messages[c]) :
         conversation_messages[c][i].user_id \notin {req[p].user_id}

\* C19: on a prediction-cache hit the turn's web contribution is the cached
\* bundle: web_search_context is the bundle's analysis text (and the
\* sources the bundle's sources), which the LLM prompt is then built from.
C19_HitReturnsBundle ==
  [][\A p \in Procs :
       (pc[p] = "fanout" /\ pc'[p] = "llm" /\ loc'[p].cached_prediction # NoRow) =>
         loc'[p].web_search_context = predictions[loc'[p].cached_prediction].analysis]_vars

\* C20: under any interleaving of lookups, inserts and cleanups, the
\* view_count of every bundle equals the number of lookups that returned
\* it: each hit adds exactly one, and a miss or an insert changes no
\* view_count (a new bundle starts at 0).
C20_ViewCountCountsHits ==
  /\ Len(pred_hits) = Len(predictions)
  /\ \A i \in 1..Len(predictions) : predictions[i].view_count = pred_hits[i]

\* both callers have returned the same bundle after SELECTs that both saw
\* view_count 0, and the bundle's view_count is 2
C20_Witness ==
  \E i \in 1..Len(predictions) :
    /\ predictions[i].view_count = 2
    /\ \A p \in Procs :
         /\ pred_pc[p] = "idle"
         /\ pred_loc[p].returned = i
         /\ pred_loc[p].view_count = 0

\* C24: the web-search limit applied to a principal is the one of its
\* tier, 5 for guests, 10 for free registered users and 50 for users on
\* the limited and unlimited plans: a turn is refused with the daily
\* analysis limit only under the limit of its principal's tier, so a paid
\* user with a count of 10 or more and below 50 is still let through.
C24_LimitByTier ==
  \A p \in Procs :
    LET uid == req[p].user_id
        tier_limit ==
          IF StartsWithGuestUnderscore(uid) \/ uid = "anonymous-user"
          THEN WEB_SEARCH_LIMIT_GUEST
          ELSE IF uid \in RegisteredIds /\ users[uid].tier \in {"limited", "unlimited"}
          THEN WEB_SEARCH_LIMIT_PAID
          ELSE WEB_SEARCH_LIMIT_FREE
    IN out[p].response = "daily_analysis_limit" => out[p].limit = tier_limit

\* C25: a principal's web-search count rises by exactly 1 over a turn
\* that makes a fresh provider search and by 0 over a turn served from a
\* cached search result: once the search stage of an admitted turn is
\* over, the count is the one the turn read at admission plus 1 if the
\* turn asked a provider, plus 0 if it did not.
C25_CountIsFreshSearches ==
  \A p \in Procs :
    (pc[p] \in {"llm", "finish", "done"} /\ loc[p].current_count # None) =>
      ws_rate[req[p].user_id].count =
        loc[p].current_count + (IF "search" \in eff[p] THEN 1 ELSE 0)

\* C26: the search sub-quota throttles the provider calls made for a
\* principal; a turn that is admitted because a cached result exists for
\* its message makes no provider call: the search stage of a turn whose
\* message has a cached result leaves the turn without a provider call.
C26_CachedAdmissionMakesNoCall ==
  [][\A p \in Procs :
       (/\ pc[p] = "web_search"
        /\ get_cached_search_results(req[p].message)
        /\ pc'[p] = "llm")
       => "search" \notin eff'[p]]_vars

\* C27: the web-search counter resets daily: the count returns to 0 no
\* later than 24 hours after the first increment of the current window,
\* whatever increments follow inside the window.  The window's end is
\* the counter's expiry, so an increment made while the window is open
\* leaves the expiry where the first increment put it.
C27_WindowEndsADayAfterFirstIncrement ==
  [][\A u \in UserIds :
       (ws_rate'[u] # ws_rate[u] /\ ~(now > ws_rate[u].expiry))
       => ws_rate'[u].expiry = ws_rate[u].expiry]_vars

\* C28: the web-search rate counter is incremented atomically: under any
\* interleaving every increment_web_search_count call raises the count
\* by exactly 1 (no lost update).  The count is the one the calling
\* process reads with its backend answering; a call during which Redis
\* raised is not judged.
C28_IncrementIsAtomic ==
  [][\A p \in Procs :
       LET count == IF redis_client
                    THEN (IF RedisLive(redis_kv[CounterKey], kv_now)
                          THEN redis_kv[CounterKey].value ELSE 0)
                    ELSE (IF cache_store[p][CounterKey].value = None
                          THEN 0 ELSE cache_store[p][CounterKey].value)
           count_after == IF redis_client
                          THEN (IF RedisLive(redis_kv'[CounterKey], kv_now')
                                THEN redis_kv'[CounterKey].value ELSE 0)
                          ELSE (IF cache_store'[p][CounterKey].value = None
                                THEN 0 ELSE cache_store'[p][CounterKey].value)
       IN (inc_pc[p] = "set" /\ inc_pc'[p] = "idle" /\ ~inc_loc'[p].redis_error)
          => count_after = count + 1]_vars

\* C29: the cache layer enforces the TTL on read: a get(k) issued after
\* the ttl of the latest set(k, v, ttl) has elapsed returns a miss, and a
\* get(k) issued before it has elapsed, with no set or clear in between,
\* returns v.  A miss of a get during which the backend raised is not
\* held against the second half.
C29_TtlEnforcedOnRead ==
  LET s == last_set[cache_ret.key]
  IN (cache_ret.op = "get" /\ s.value # None) =>
       /\ cache_ret.at > s.at + s.ttl => cache_ret.value = None
       /\ cache_ret.at < s.at + s.ttl =>
            \/ cache_ret.value = s.value
            \/ cache_ret.redis_error /\ cache_ret.value = None

\* C30: a cache backend error degrades to a miss: whatever way the Redis
\* backend fails and recovers between set, get and clear calls, a get
\* during which it raises returns a miss, and never a value of an older
\* set that a later set has superseded or a clear has removed.
C30_ErrorDegradesToMiss ==
  (cache_ret.op = "get" /\ cache_ret.redis_error /\ cache_ret.value # None) =>
    cache_ret.value = last_set[cache_ret.key].value

\* C21: of any two searches of the same query within the search TTL
\* window at most one causes a provider call, the other is served from
\* the search cache: once a search has brought results from a provider,
\* no later search asks a provider before the shortest TTL a result is
\* cached with has gone by.
C21_OneProviderCallPerWindow ==
  \A i, j \in 1..Len(provider_calls) :
    (i < j /\ provider_calls[i].found) =>
      provider_calls[j].at - provider_calls[i].at >= DEFAULT_SEARCH_TTL

\* C22: a search tries the cache, the paid provider, the free fallback
\* and only then returns empty: whenever the paid provider was asked and
\* the search came back without results, whatever the reason (exception,
\* timeout, non-200 status, empty list), the free fallback was asked; a
\* result from the cache is returned without asking a provider.
C22_FreeFallbackBeforeEmpty ==
  /\ search_ret.from_cache => search_ret.calls = <<>>
  /\ (/\ search_ret.calls # <<>>
      /\ Head(search_ret.calls) = "paid"
      /\ ~(search_ret.returned /\ search_ret.results # <<>>))
     => search_ret.calls = <<"paid", "free">>

\* C23: no result whose host is a search engine's reaches the turn's
\* output: no entry of the sources and no entry of the evidence block
\* has a search-engine host, also when every other result fails to
\* scrape.
C23_NoEngineHostInOutput ==
  /\ \A i \in 1..Len(turn_out.sources) : turn_out.sources[i] # "engine"
  /\ \A i \in 1..Len(turn_out.context) : turn_out.context[i] # "engine"

\* C31: profile merge is idempotent: a call of update_user_profile that
\* repeats the arguments of the call before it, on the row that call left,
\* leaves preferences, interests and total_messages as that call left them.
C31_MergeIdempotent ==
  \A i \in 1..(Len(prof_log) - 1) :
    LET first == prof_log[i]
        second == prof_log[i + 1]
    IN (/\ first.ret /\ second.ret
        /\ second.preferences = first.preferences
        /\ second.interests = first.interests
        /\ second.increment_messages = first.increment_messages
        /\ second.before = first.after)
       => second.after = first.after

\* C36: concurrent calls of update_user_profile are atomic: once every call
\* has returned, no call failed and the row is what the same calls leave
\* when they run one after the other in some order.
C36_ProfileUpdatesAtomic ==
  (Len(prof_log) > 0 /\ \A p \in Procs : prof_pc[p] = "idle") =>
    LET n == Len(prof_log)
        Orders == {s \in [1..n -> 1..n] : \A i, j \in 1..n : s[i] = s[j] => i = j}
        Serial(s) ==
          LET row[i \in 0..n] ==
                IF i = 0 THEN prof_log[1].before
                ELSE update_user_profile(row[i - 1], prof_log[s[i]]).row
          IN row[n]
    IN /\ \A i \in 1..n : prof_log[i].ret
       /\ \E s \in Orders : user_profiles = Serial(s)

\* C32: cost gate soundness: a build_rag_context call whose should_use_rag
\* is false calls the embedding model zero times, searches the vectors zero
\* times, raises nothing and returns the profile header and no item.
C32_GateSkipsEmbedding ==
  (rag_out.called /\ ~rag_out.needs_rag) =>
    /\ rag_out.embedding_calls = 0
    /\ rag_out.vector_searches = 0
    /\ rag_out.raised = "None"
    /\ rag_out.items = <<>>
    /\ rag_out.header = ProfileHeader(user_profiles, in_memory_profiles, in_memory_names)

C32_Witness ==
  /\ rag_out.called /\ ~rag_out.needs_rag
  /\ user_profiles.exists
  /\ rag_out.header.name = "asha"
  /\ chat_vectors # {}

\* C33: RAG monotonicity: a build_rag_context call for a query that needs
\* memory emits every stored memory whose embedding equals the query's and
\* whose content contains all the query's words.
C33_MatchingMemoryIsEmitted ==
  [][(rag_out' # rag_out /\ rag_out'.called /\ rag_out'.needs_rag) =>
       \A m \in chat_vectors :
         (/\ m.embedding = embed_text(rag_query)
          /\ \A i \in 1..Len(rag_query) :
               \E j \in 1..Len(m.content) : m.content[j] = rag_query[i])
         => \E k \in 1..Len(rag_out'.items) : rag_out'.items[k] = m.content]_vars

\* C35: should_use_rag is false exactly for the short generic queries: those
\* with fewer than 5 words that match a skip trigger and no memory trigger;
\* every other query gets true.
C35_FalseOnlyForShortGeneric ==
  rag_out.called =>
    (rag_out.needs_rag = FALSE <=>
       (/\ Len(rag_query) < SHORT_QUERY_WORDS
        /\ Matches(rag_query, skip_triggers)
        /\ ~Matches(rag_query, memory_triggers)))

\* C34: conversation store round trip: every message a successful read of a
\* conversation returns is a written message of that conversation cut to
\* the 4000 characters of the write, whichever store answered; and the list
\* that follows the deletion of a conversation does not contain it.
C34_StoreRoundTrip ==
  [][/\ (store_ret' # store_ret /\ store_ret'.op = "get" /\ store_ret'.status = 200) =>
          \A i \in 1..Len(store_ret'.messages) :
            /\ store_ret'.messages[i].length <= CONTENT_LIMIT
            /\ \E j \in 1..Len(conv_memory[store_ret'.conversation_id].messages) :
                 store_ret'.messages[i] =
                   Truncate(conv_memory[store_ret'.conversation_id].messages[j])
     /\ (store_ret.op = "delete" /\ store_ret'.op = "list" /\ store_ret'.status = 200) =>
          store_ret.conversation_id \notin store_ret'.ids]_vars

\* C40: after a user deleted all their conversations, the history a later
\* turn of that user sends to the LLM holds no message written before the
\* deletion.
C40_NoHistoryAfterDeleteAll ==
  [][msg_seq' # msg_seq =>
       \A i \in 1..Len(llm_history'.messages) :
         llm_history'.messages[i].id > purged[llm_history'.user_id]]_vars

\* C37: citation indices are consistent: the sources of a turn with web
\* evidence are numbered 1, 2, ..., n in order, and the evidence entry
\* tagged [i] in the prompt names the url of the source numbered i, also
\* when results were skipped for an engine host or for having no text.
C37_CitationIndicesConsistent ==
  LET n == Len(turn_out.citations)
  IN /\ Len(turn_out.sources) = n
     /\ Len(turn_out.evidence) = n
     /\ \A i \in 1..n :
          /\ turn_out.citations[i].number = i
          /\ turn_out.evidence[i].number = i
          /\ turn_out.evidence[i].url = turn_out.citations[i].url

C37_Witness ==
  /\ Len(search_ret.results) = 2
  /\ is_search_engine(search_ret.results[1])
  /\ Len(turn_out.citations) = 1
  /\ turn_out.citations[1].url = 2

\* C38: a tier upgrade leaves the quota counters alone: upgrade_subscription
\* changes the tier, the status, the expiry and the subscription id of the
\* user's row and nothing else, and a user whose last message was denied
\* with lifetime_limit is admitted on the first message after an upgrade to
\* limited or unlimited.
C38_UpgradeKeepsCounters ==
  [][/\ (admit_ret'.seq # admit_ret.seq /\ admit_ret'.op = "upgrade") =>
          /\ guest_usage' = guest_usage
          /\ \A u \in RegisteredIds :
               /\ users'[u].messages_lifetime = users[u].messages_lifetime
               /\ users'[u].messages_today = users[u].messages_today
               /\ users'[u].daily_reset_at = users[u].daily_reset_at
               /\ u # admit_ret'.user_id => users'[u] = users[u]
     /\ \A u \in RegisteredIds :
          (/\ last_denial[u] = "lifetime_limit"
           /\ admit_ret.op = "upgrade" /\ admit_ret.user_id = u /\ admit_ret.ok
           /\ admit_ret'.seq # admit_ret.seq
           /\ admit_ret'.op = "admit" /\ admit_ret'.user_id = u)
          => admit_ret'.proceeds]_vars

C38_Witness ==
  /\ admit_ret.op = "admit" /\ admit_ret.user_id = "u1"
  /\ admit_ret.path = "registered" /\ admit_ret.proceeds /\ admit_ret.ok
  /\ users["u1"].tier = "limited"
  /\ users["u1"].razorpay_subscription_id = "sub_1"
  /\ users["u1"].messages_lifetime = PLAN_FREE_TOTAL + 1

\* C39: with the limits enabled every turn that goes on to the LLM passed
\* one admission path and incremented that path's counter: the guest row of
\* its fingerprint, or both message counters of its users row.
C39_EveryTurnIsMetered ==
  [][(admit_ret'.seq # admit_ret.seq /\ admit_ret'.op = "admit" /\ admit_ret'.proceeds) =>
       \/ /\ admit_ret'.path = "guest"
          /\ guest_usage'[admit_ret'.fp] =
               (IF guest_usage[admit_ret'.fp] = NoRow THEN 0
                ELSE guest_usage[admit_ret'.fp]) + 1
       \/ /\ admit_ret'.path = "registered"
          /\ admit_ret'.user_id \in RegisteredIds
          /\ users'[admit_ret'.user_id].messages_lifetime =
               users[admit_ret'.user_id].messages_lifetime + 1]_vars

====
